---- MODULE Spec2Model ----
(***************************************************************************)
(* Model of the Terraform provider for the Marmot catalog: the CRUD        *)
(* handlers of the asset, glossary-term and lineage resources and the      *)
(* converters between the declarative model and the wire model.            *)
(*                                                                         *)
(* One resource instance is followed at a time.  `resource` names the      *)
(* implementation that serves it, `state` is the Terraform state stored    *)
(* for the instance, `remote` is what the catalog service holds for it and *)
(* `op` records the last handler invocation: its request, the API calls it *)
(* made and the diagnostics it reported.                                   *)
(*                                                                         *)
(* The repository carries two copies of the lineage resource:              *)
(* internal/provider/lineage_resource.go ("lineage") and the copy in       *)
(* unnamed/part_002 ("lineage_part_002").  Both are modelled.              *)
(***************************************************************************)
EXTENDS FiniteSets, Integers, Sequences, TLC

VARIABLES resource, state, remote, op

vars == <<resource, state, remote, op>>

-----------------------------------------------------------------------------
(* Framework value types (terraform-plugin-framework types.String, ...).   *)

StringNull == [ty |-> "string", k |-> "null"]
StringUnknown == [ty |-> "string", k |-> "unknown"]
StringValue(s) == [ty |-> "string", k |-> "value", v |-> s]

Int64Null == [ty |-> "int64", k |-> "null"]
Int64Value(n) == [ty |-> "int64", k |-> "value", v |-> n]

BoolNull == [ty |-> "bool", k |-> "null"]
BoolUnknown == [ty |-> "bool", k |-> "unknown"]
BoolValue(b) == [ty |-> "bool", k |-> "value", v |-> b]

IsNull(x) == x.k = "null"
IsUnknown(x) == x.k = "unknown"

\* types.String.ValueString: the empty string for null and unknown.
ValueString(x) == IF x.k = "value" THEN x.v ELSE ""

\* types.Int64.ValueInt64: zero for null and unknown.
ValueInt64(x) == IF x.k = "value" THEN x.v ELSE 0

\* The state of an instance that is not (or no longer) stored.
NoState == [exists |-> FALSE]

\* No entity held by the service.
NoEntity == [exists |-> FALSE]

\* diag.Diagnostics with errors only, in order: each error is written by
\* its summary, with its detail behind it where one summary comes with
\* several details.
NoDiags == <<>>
HasError(diags) == Len(diags) > 0

\* Diagnostics.Append: the diagnostics of `more` are added one by one, one
\* that the list already holds (same summary, same detail) is left out.
RECURSIVE AppendDiags(_, _)
AppendDiags(diags, more) ==
    IF more = <<>> THEN diags
    ELSE AppendDiags(IF \E i \in DOMAIN diags : diags[i] = Head(more)
                     THEN diags ELSE diags \o <<Head(more)>>,
                     Tail(more))

-----------------------------------------------------------------------------
(* The catalog service, seen through the generated client: every call      *)
(* returns (payload, err).                                                 *)

\* Identifiers the service may put in a payload; "" is the contract
\* violation of an entity without identifier.
WireIDs == {"", "id-1", "id-2"}

\* Identifiers given to an import.
ImportIDs == {"id-9"}

\* The plan modifier UseStateForUnknown on a computed attribute: nothing
\* when the resource has no state yet or the planned value is known, and
\* the value of the state otherwise, a null one included.
UseStateForUnknown(hasState, planValue, stateValue) ==
    IF ~hasState THEN planValue
    ELSE IF ~IsUnknown(planValue) THEN planValue
    ELSE stateValue

\* err != nil answers of the client: the service said not-found, or the
\* call failed otherwise.
ApiErrors == {"not_found", "failed"}

\* One call of the generated client: the endpoint, what it was given, the
\* err it returned ("nil" for none) and the payload it returned (none with
\* an err, none from a delete).
Call(ep, arg, err, res) == [ep |-> ep, arg |-> arg, err |-> err, res |-> res]

\* The handler record left in `op`.
Invocation(name, request, calls, diags) ==
    [name |-> name, request |-> request, calls |-> calls, diags |-> diags]

NoInvocation == Invocation("none", NoState, <<>>, NoDiags)

-----------------------------------------------------------------------------
(* LineageResource, internal/provider/lineage_resource.go                  *)

LineageNames == {"A", "B"}
LineageTypes == {"", "DIRECT"}

\* The schema attributes that carry the RequiresReplace plan modifier.
LineageRequiresReplace == {}

\* Plans the framework hands to Create: source and target are required,
\* resource_id and type are computed and not yet known.
LineageCreatePlans ==
    { [Source |-> StringValue(s), Target |-> StringValue(t),
       ResourceID |-> StringUnknown, Type |-> StringUnknown] :
         s \in LineageNames, t \in LineageNames }

\* Plans the framework hands to Update: resource_id carries
\* UseStateForUnknown, type has no plan modifier and is unknown again.
LineageUpdatePlans(st) ==
    { [Source |-> StringValue(s), Target |-> StringValue(t),
       ResourceID |-> st.ResourceID, Type |-> StringUnknown] :
         s \in LineageNames, t \in LineageNames }

\* An attribute with RequiresReplace that differs between plan and state
\* makes the framework replace the instance instead of calling Update.
Replaces(attrs, plan, st) ==
    \E a \in attrs : plan[a] # st[a]

\* The state the framework stores for a model written with State.Set.
Stored(data) == [exists |-> TRUE] @@ data

\* The entity the service holds after answering with `payload`.
Held(payload) == [exists |-> TRUE] @@ payload

\* The edge as the service answers it on a read.
LineagePayload(held) ==
    [ID |-> held.ID, Type |-> held.Type, Source |-> held.Source, Target |-> held.Target]

\* Create: one PostLineageDirect; the returned ID and Type go into state
\* as they are.
LineageCreate ==
    /\ resource = "lineage"
    /\ ~state.exists
    /\ \E data \in LineageCreatePlans :
         LET edge == [Source |-> ValueString(data.Source),
                      Target |-> ValueString(data.Target)]
         IN \/ \E err \in ApiErrors :
                 /\ op' = Invocation("Create", data,
                                     <<Call("PostLineageDirect", edge, err, NoEntity)>>,
                                     <<"Client Error">>)
                 /\ UNCHANGED <<state, remote>>
            \/ \E id \in WireIDs, ty \in LineageTypes :
                 LET payload == [ID |-> id, Type |-> ty,
                                 Source |-> edge.Source, Target |-> edge.Target]
                     new == [data EXCEPT !.ResourceID = StringValue(payload.ID),
                                         !.Type = StringValue(payload.Type)]
                 IN /\ op' = Invocation("Create", data,
                                        <<Call("PostLineageDirect", edge, "nil", payload)>>,
                                        NoDiags)
                    /\ state' = Stored(new)
                    /\ remote' = Held(payload)
    /\ UNCHANGED resource

\* Read: logs and writes the state it was given back; no API call.
LineageRead ==
    /\ resource = "lineage"
    /\ state.exists
    /\ LET data == [Source |-> state.Source, Target |-> state.Target,
                    ResourceID |-> state.ResourceID, Type |-> state.Type]
       IN /\ op' = Invocation("Read", data, <<>>, NoDiags)
          /\ state' = Stored(data)
    /\ UNCHANGED <<resource, remote>>

\* Update: writes the plan into state; no API call, no diagnostic.
LineageUpdate ==
    /\ resource = "lineage"
    /\ state.exists
    /\ \E data \in LineageUpdatePlans(state) :
         /\ ~Replaces(LineageRequiresReplace, data, state)
         /\ op' = Invocation("Update", data, <<>>, NoDiags)
         /\ state' = Stored(data)
    /\ UNCHANGED <<resource, remote>>

\* A Delete that does not look at err: the instance is dropped from state
\* whatever the call returned.
LineageDeleteIgnoringErr ==
    /\ resource = "lineage"
    /\ state.exists
    /\ LET data == [Source |-> state.Source, Target |-> state.Target,
                    ResourceID |-> state.ResourceID, Type |-> state.Type]
           id == ValueString(data.ResourceID)
       IN \E err \in ApiErrors \cup {"nil"} :
              /\ op' = Invocation("Delete", data, <<Call("DeleteLineageDirectID", id, err, NoEntity)>>,
                                  NoDiags)
              /\ state' = NoState
              /\ remote' = IF err = "failed" THEN remote ELSE NoEntity
    /\ UNCHANGED resource

\* Delete: one DeleteLineageDirectID with the stored resource_id; any
\* err is an error diagnostic.  Without error the framework drops the
\* instance from state.
LineageDelete ==
    /\ resource = "lineage"
    /\ state.exists
    /\ LET data == [Source |-> state.Source, Target |-> state.Target,
                    ResourceID |-> state.ResourceID, Type |-> state.Type]
           id == ValueString(data.ResourceID)
       IN \/ \E err \in ApiErrors :
              /\ op' = Invocation("Delete", data, <<Call("DeleteLineageDirectID", id, err, NoEntity)>>,
                                  <<"Client Error">>)
              /\ remote' = IF err = "not_found" THEN NoEntity ELSE remote
              /\ UNCHANGED state
          \/ /\ op' = Invocation("Delete", data, <<Call("DeleteLineageDirectID", id, "nil", NoEntity)>>,
                                  NoDiags)
             /\ state' = NoState
             /\ remote' = NoEntity
    /\ UNCHANGED resource

\* ImportState: ImportStatePassthroughID writes the identifier given to the
\* import into resource_id; every other attribute of the state is null.
LineageImportState ==
    /\ resource = "lineage"
    /\ ~state.exists
    /\ \E id \in ImportIDs :
         /\ op' = Invocation("ImportState", [ID |-> id], <<>>, NoDiags)
         /\ state' = Stored([Source |-> StringNull, Target |-> StringNull,
                             ResourceID |-> StringValue(id), Type |-> StringNull])
    /\ UNCHANGED <<resource, remote>>

-----------------------------------------------------------------------------
(* LineageResource, the copy in unnamed/part_002                            *)

\* Both source and target carry RequiresReplace in this copy's schema.
LineageRequiresReplaceP2 == {"Source", "Target"}

LineageCreatePlansP2 ==
    { [Source |-> StringValue(s), Target |-> StringValue(t),
       ResourceID |-> StringUnknown] :
         s \in LineageNames, t \in LineageNames }

LineageUpdatePlansP2(st) ==
    { [Source |-> StringValue(s), Target |-> StringValue(t),
       ResourceID |-> st.ResourceID] :
         s \in LineageNames, t \in LineageNames }

LineageCreateP2 ==
    /\ resource = "lineage_part_002"
    /\ ~state.exists
    /\ \E data \in LineageCreatePlansP2 :
         LET edge == [Source |-> ValueString(data.Source),
                      Target |-> ValueString(data.Target)]
         IN \/ \E err \in ApiErrors :
                 /\ op' = Invocation("Create", data,
                                     <<Call("PostLineageDirect", edge, err, NoEntity)>>,
                                     <<"Client Error">>)
                 /\ UNCHANGED <<state, remote>>
            \/ \E id \in WireIDs, ty \in LineageTypes :
                 LET payload == [ID |-> id, Type |-> ty,
                                 Source |-> edge.Source, Target |-> edge.Target]
                     new == [data EXCEPT !.ResourceID = StringValue(payload.ID)]
                 IN /\ op' = Invocation("Create", data,
                                        <<Call("PostLineageDirect", edge, "nil", payload)>>,
                                        NoDiags)
                    /\ state' = Stored(new)
                    /\ remote' = Held(payload)
    /\ UNCHANGED resource

\* Read: one GetLineageDirectID with the stored resource_id, whatever it
\* is; source and target are taken from the answer.
LineageReadP2 ==
    /\ resource = "lineage_part_002"
    /\ state.exists
    /\ LET data == [Source |-> state.Source, Target |-> state.Target,
                    ResourceID |-> state.ResourceID]
           id == ValueString(data.ResourceID)
       IN \/ \E err \in ApiErrors :
              /\ op' = Invocation("Read", data, <<Call("GetLineageDirectID", id, err, NoEntity)>>,
                                  <<"Client Error">>)
              /\ remote' = IF err = "not_found" THEN NoEntity ELSE remote
              /\ UNCHANGED state
          \/ /\ remote.exists
             /\ LET payload == LineagePayload(remote)
                    new == [data EXCEPT !.Source = StringValue(payload.Source),
                                        !.Target = StringValue(payload.Target)]
                IN /\ op' = Invocation("Read", data, <<Call("GetLineageDirectID", id, "nil", payload)>>,
                                        NoDiags)
                   /\ state' = Stored(new)
             /\ UNCHANGED remote
    /\ UNCHANGED resource

\* Update: rejected outright; neither the plan nor the state is read.
LineageUpdateP2 ==
    /\ resource = "lineage_part_002"
    /\ state.exists
    /\ \E data \in LineageUpdatePlansP2(state) :
         /\ ~Replaces(LineageRequiresReplaceP2, data, state)
         /\ op' = Invocation("Update", data, <<>>, <<"Update Not Supported">>)
    /\ UNCHANGED <<resource, state, remote>>

LineageDeleteP2 ==
    /\ resource = "lineage_part_002"
    /\ state.exists
    /\ LET data == [Source |-> state.Source, Target |-> state.Target,
                    ResourceID |-> state.ResourceID]
           id == ValueString(data.ResourceID)
       IN \/ \E err \in ApiErrors :
              /\ op' = Invocation("Delete", data, <<Call("DeleteLineageDirectID", id, err, NoEntity)>>,
                                  <<"Client Error">>)
              /\ remote' = IF err = "not_found" THEN NoEntity ELSE remote
              /\ UNCHANGED state
          \/ /\ op' = Invocation("Delete", data, <<Call("DeleteLineageDirectID", id, "nil", NoEntity)>>,
                                  NoDiags)
             /\ state' = NoState
             /\ remote' = NoEntity
    /\ UNCHANGED resource

\* ImportState: the identifier given to the import goes into resource_id;
\* source and target are null.
LineageImportStateP2 ==
    /\ resource = "lineage_part_002"
    /\ ~state.exists
    /\ \E id \in ImportIDs :
         /\ op' = Invocation("ImportState", [ID |-> id], <<>>, NoDiags)
         /\ state' = Stored([Source |-> StringNull, Target |-> StringNull,
                             ResourceID |-> StringValue(id)])
    /\ UNCHANGED <<resource, remote>>

-----------------------------------------------------------------------------
(* Go and framework container values                                       *)

\* A Go slice: nil, or a (possibly empty) sequence of elements.
NilSlice == [nil |-> TRUE, elems |-> <<>>]
Slice(seq) == [nil |-> FALSE, elems |-> seq]
len(x) == Len(x.elems)

\* types.Map: null, unknown, or a mapping from keys to element values.
MapNull == [ty |-> "map", k |-> "null"]
MapUnknown == [ty |-> "map", k |-> "unknown"]
MapValue(f) == [ty |-> "map", k |-> "value", elems |-> f]

\* types.Set: null, unknown, or the elements in the order the container
\* holds them.
SetNull == [ty |-> "set", k |-> "null"]
SetUnknown == [ty |-> "set", k |-> "unknown"]
SetValue(seq) == [ty |-> "set", k |-> "value", elems |-> seq]

\* A Go map: nil, or a (possibly empty) mapping.
NilMap == [nil |-> TRUE, m |-> [key \in {} |-> ""]]
GoMap(f) == [nil |-> FALSE, m |-> f]
lenMap(x) == Cardinality(DOMAIN x.m)

\* The mapping with no entries (an empty Go map, an empty types.Map).
EmptyMap == [key \in {} |-> ""]

\* A weakly-typed wire field (interface{}): nil, or a
\* map[string]interface{} whose values are strings, numbers, booleans or nil.
WireNil == [t |-> "nil"]
WireMap(f) == [t |-> "map", m |-> f]
WireString(str) == [t |-> "string", v |-> str]
WireInt(n) == [t |-> "int", n |-> n]
WireBool(b) == [t |-> "bool", b |-> b]
\* A float with a finite decimal expansion: whole.frac, frac a sequence of
\* decimal digits without trailing zero.
WireFloat(whole, frac) == [t |-> "float", whole |-> whole, frac |-> frac]

\* A list of the wire ([]interface{}), its elements wire values.
WireList(elems) == [t |-> "list", elems |-> elems]

RECURSIVE Digits(_)
Digits(ds) == IF ds = <<>> THEN "" ELSE ToString(Head(ds)) \o Digits(Tail(ds))

\* The decimal digits of a natural number, the first one not zero; none
\* for zero.
RECURSIVE NatDigits(_)
NatDigits(n) == IF n = 0 THEN <<>> ELSE NatDigits(n \div 10) \o <<n % 10>>

RECURSIVE DropLeadingZeros(_)
DropLeadingZeros(ds) ==
    IF ds # <<>> /\ Head(ds) = 0 THEN DropLeadingZeros(Tail(ds)) ELSE ds

RECURSIVE DropTrailingZeros(_)
DropTrailingZeros(ds) ==
    IF ds # <<>> /\ ds[Len(ds)] = 0
    THEN DropTrailingZeros(SubSeq(ds, 1, Len(ds) - 1)) ELSE ds

\* The keys the maps of the model are built from, in byte order: the order
\* of sort.Strings, and the order in which fmt prints the keys of a map.
KeysInOrder ==
    <<"a", "b", "dev", "job", "owner", "prod", "replicas", "tier">>

SortedKeys(keys) == SelectSeq(KeysInOrder, LAMBDA key : key \in keys)

\* strconv's 'g' format with the shortest precision, which %v uses for a
\* float: the digits that tell the float apart, in exponent form
\* (d.ddde+XX, the exponent with two digits at least) when the decimal
\* exponent is below -4 or is 6 or more, in plain form otherwise.
SprintfG(val) ==
    LET whole == NatDigits(val.whole)
        all == whole \o val.frac
        zeros == Len(all) - Len(DropLeadingZeros(all))
        sig == DropTrailingZeros(DropLeadingZeros(all))
        exp == Len(whole) - 1 - zeros
        abs == IF exp < 0 THEN 0 - exp ELSE exp
    IN IF sig = <<>> THEN "0"
       ELSE IF exp < -4 \/ exp >= 6
       THEN ToString(sig[1])
              \o (IF Len(sig) > 1 THEN "." \o Digits(Tail(sig)) ELSE "")
              \o (IF exp < 0 THEN "e-" ELSE "e+")
              \o (IF abs < 10 THEN "0" ELSE "") \o ToString(abs)
       ELSE IF val.frac = <<>> THEN ToString(val.whole)
       ELSE ToString(val.whole) \o "." \o Digits(val.frac)

\* fmt.Sprintf("%v", v) of a wire value: a list as [e1 e2], a map as
\* map[k1:v1 k2:v2] with its keys in order.
RECURSIVE SprintfV(_)
RECURSIVE SprintfList(_)
RECURSIVE SprintfEntries(_, _)
SprintfList(elems) ==
    IF elems = <<>> THEN ""
    ELSE IF Len(elems) = 1 THEN SprintfV(elems[1])
    ELSE SprintfV(Head(elems)) \o " " \o SprintfList(Tail(elems))

SprintfEntries(m, keys) ==
    IF keys = <<>> THEN ""
    ELSE Head(keys) \o ":" \o SprintfV(m[Head(keys)])
           \o (IF Len(keys) > 1 THEN " " \o SprintfEntries(m, Tail(keys)) ELSE "")

SprintfV(val) ==
    CASE val.t = "string" -> val.v
      [] val.t = "int" -> ToString(val.n)
      [] val.t = "bool" -> IF val.b THEN "true" ELSE "false"
      [] val.t = "float" -> SprintfG(val)
      [] val.t = "nil" -> "<nil>"
      [] val.t = "list" -> "[" \o SprintfList(val.elems) \o "]"
      [] val.t = "map" -> "map[" \o SprintfEntries(val.m, SortedKeys(DOMAIN val.m)) \o "]"

-----------------------------------------------------------------------------
(* Timestamps                                                              *)

\* A timestamp string of the wire.  One that parses as RFC3339Nano is
\* written by its parts: Stamp("2024-01-02T03:04:05", <<1, 2, 3>>, "Z") is
\* "2024-01-02T03:04:05.123Z"; `frac` holds the fractional-second digits
\* (none when empty) and `zone` is "Z" or a numeric offset.  Any other
\* string, the empty one included, is a Text.
Stamp(date, frac, zone) == [date |-> date, frac |-> frac, zone |-> zone]
Text(str) == [raw |-> str]
Parses(timestamp) == "date" \in DOMAIN timestamp

\* The fractional digits of the layout "2006-01-02T15:04:05.000000Z07:00".
MicroDigits == 6

\* The fractional digits as parsed, neither cut nor filled.
FractionAsParsed(frac) == frac

\* Format with ".000000": exactly six digits, further ones cut, missing
\* ones zero.
FixedFraction(frac) ==
    [i \in 1..MicroDigits |-> IF i <= Len(frac) THEN frac[i] ELSE 0]

\* Format with "Z07:00": "Z" for a zero offset, the numeric offset of the
\* parsed time otherwise.
FormatZone(zone) == IF zone \in {"Z", "+00:00", "-00:00"} THEN "Z" ELSE zone

normalizeTimestamp(timestamp) ==
    IF timestamp = Text("") THEN Text("")
    ELSE IF ~Parses(timestamp) THEN timestamp
    ELSE Stamp(timestamp.date, FixedFraction(timestamp.frac), FormatZone(timestamp.zone))

-----------------------------------------------------------------------------
(* GlossaryResource, internal/provider/glossary_resource.go                *)

\* Timestamps as the service writes them.
GlossaryStamps ==
    {Text(""), Stamp("2024-01-02T03:04:05", <<1, 2, 3, 4, 5, 6, 7, 8, 9>>, "Z")}

GlossaryMetadataInputs ==
    { MapNull,
      MapValue(EmptyMap),
      MapValue([key \in {"owner"} |-> StringValue("team")]),
      MapValue([key \in {"owner", "tier"} |->
                  IF key = "owner" THEN StringValue("team") ELSE StringNull]) }

GlossaryOwnersInputs ==
    { NilSlice,
      Slice(<<[ID |-> StringValue("u1"), Type |-> StringValue("user")]>>) }

\* What a configuration declares of a glossary term: a term with only its
\* required attributes, and that term with one optional attribute declared.
GlossaryBaseConfig ==
    [Name |-> StringValue("term"), Definition |-> StringValue("meaning"),
     Description |-> StringNull, ParentTermID |-> StringNull,
     Owners |-> NilSlice, Metadata |-> MapNull]

GlossaryConfigs ==
    {GlossaryBaseConfig,
     [GlossaryBaseConfig EXCEPT !.Description = StringValue("about")],
     [GlossaryBaseConfig EXCEPT !.ParentTermID = StringValue("id-0")]}
    \cup {[GlossaryBaseConfig EXCEPT !.Owners = o] : o \in GlossaryOwnersInputs}
    \cup {[GlossaryBaseConfig EXCEPT !.Metadata = m] : m \in GlossaryMetadataInputs}

\* Plans handed to Create: the computed attributes are not yet known.
GlossaryCreatePlans ==
    { c @@ [ID |-> UseStateForUnknown(FALSE, StringUnknown, StringNull),
            CreatedAt |-> UseStateForUnknown(FALSE, StringUnknown, StringNull),
            UpdatedAt |-> StringUnknown] : c \in GlossaryConfigs }

\* Identifiers a caller may put in the plan handed to Update: the stored
\* one (UseStateForUnknown) or another.
PlanIDs(st) == {st.ID, StringValue("id-2")}

\* Plans handed to Update: created_at carries UseStateForUnknown,
\* updated_at has no plan modifier.
GlossaryUpdatePlans(st) ==
    { c @@ [ID |-> id, CreatedAt |-> UseStateForUnknown(TRUE, StringUnknown, st.CreatedAt),
            UpdatedAt |-> StringUnknown] :
         c \in GlossaryConfigs, id \in PlanIDs(st) }

\* A metadata block that sends a null entry as the empty string.
GlossaryRequestMetadataKeepingNull(metadata) ==
    IF ~IsNull(metadata) /\ ~IsUnknown(metadata)
    THEN LET kept == { key \in DOMAIN metadata.elems :
                         metadata.elems[key].ty = "string" }
         IN IF Cardinality(kept) > 0
            THEN WireMap([key \in kept |-> WireString(ValueString(metadata.elems[key]))])
            ELSE WireNil
    ELSE WireNil

\* The metadata block shared by toCreateRequest and toUpdateRequest:
\* the non-null string entries, or nothing when there are none; an entry
\* that is not a string is skipped.
GlossaryRequestMetadata(metadata) ==
    IF ~IsNull(metadata) /\ ~IsUnknown(metadata)
    THEN LET kept == { key \in DOMAIN metadata.elems :
                         /\ metadata.elems[key].ty = "string"
                         /\ ~IsNull(metadata.elems[key]) }
         IN IF Cardinality(kept) > 0
            THEN WireMap([key \in kept |-> WireString(ValueString(metadata.elems[key]))])
            ELSE WireNil
    ELSE WireNil

GlossaryRequestOwners(owners) ==
    IF len(owners) > 0
    THEN Slice([i \in 1..len(owners) |->
                  [ID |-> ValueString(owners.elems[i].ID),
                   Type |-> ValueString(owners.elems[i].Type)]])
    ELSE NilSlice

GlossaryToCreateRequest(data) ==
    [Name |-> ValueString(data.Name),
     Definition |-> ValueString(data.Definition),
     Description |-> IF ~IsNull(data.Description) /\ ~IsUnknown(data.Description)
                     THEN ValueString(data.Description) ELSE "",
     ParentTermID |-> IF ~IsNull(data.ParentTermID) /\ ~IsUnknown(data.ParentTermID)
                      THEN ValueString(data.ParentTermID) ELSE "",
     Owners |-> GlossaryRequestOwners(data.Owners),
     Metadata |-> GlossaryRequestMetadata(data.Metadata)]

GlossaryToUpdateRequest(data) ==
    [Name |-> ValueString(data.Name),
     Definition |-> ValueString(data.Definition),
     Description |-> IF ~IsNull(data.Description) /\ ~IsUnknown(data.Description)
                     THEN ValueString(data.Description) ELSE "",
     ParentTermID |-> IF ~IsNull(data.ParentTermID) /\ ~IsUnknown(data.ParentTermID)
                      THEN ValueString(data.ParentTermID) ELSE "",
     Owners |-> GlossaryRequestOwners(data.Owners),
     Metadata |-> GlossaryRequestMetadata(data.Metadata)]

\* The string updateModelFromResponse makes of one metadata value: a
\* string as it is, any other value by fmt.Sprintf("%v").
GlossaryConvertedValue(val) == IF val.t = "string" THEN val.v ELSE SprintfV(val)

\* The metadata of the model: a map value when the wire map has entries,
\* null otherwise.
GlossaryModelMetadata(wire) ==
    IF wire.t = "map" /\ Cardinality(DOMAIN wire.m) > 0
    THEN MapValue([key \in DOMAIN wire.m |->
                     StringValue(GlossaryConvertedValue(wire.m[key]))])
    ELSE MapNull

\* updateModelFromResponse: every field of the model is taken from the
\* returned term.
GlossaryUpdateModelFromResponse(model, term) ==
    [ID |-> StringValue(term.ID),
     Name |-> StringValue(term.Name),
     Definition |-> StringValue(term.Definition),
     CreatedAt |-> StringValue(term.CreatedAt),
     UpdatedAt |-> StringValue(term.UpdatedAt),
     Description |-> IF term.Description # "" THEN StringValue(term.Description)
                     ELSE StringNull,
     ParentTermID |-> IF term.ParentTermID # "" THEN StringValue(term.ParentTermID)
                      ELSE StringNull,
     Owners |-> IF len(term.Owners) > 0
                THEN Slice([i \in 1..len(term.Owners) |->
                              [ID |-> StringValue(term.Owners.elems[i].ID),
                               Type |-> StringValue(term.Owners.elems[i].Type)]])
                ELSE NilSlice,
     Metadata |-> GlossaryModelMetadata(term.Metadata)]

\* The term the service holds and answers after a create or update
\* request: what it was sent, under the identifier and timestamps it chose.
GlossaryTerm(req, id, created, updated) ==
    [ID |-> id, Name |-> req.Name, Definition |-> req.Definition,
     Description |-> req.Description, ParentTermID |-> req.ParentTermID,
     Owners |-> req.Owners, Metadata |-> req.Metadata,
     CreatedAt |-> created, UpdatedAt |-> updated]

\* The model a handler decodes from the stored state.
GlossaryModel(st) ==
    [Name |-> st.Name, Definition |-> st.Definition, Description |-> st.Description,
     ParentTermID |-> st.ParentTermID, Owners |-> st.Owners, Metadata |-> st.Metadata,
     ID |-> st.ID, CreatedAt |-> st.CreatedAt, UpdatedAt |-> st.UpdatedAt]

\* The payload of a read: the term as held.
GlossaryPayload(held) ==
    [ID |-> held.ID, Name |-> held.Name, Definition |-> held.Definition,
     Description |-> held.Description, ParentTermID |-> held.ParentTermID,
     Owners |-> held.Owners, Metadata |-> held.Metadata,
     CreatedAt |-> held.CreatedAt, UpdatedAt |-> held.UpdatedAt]

\* Create's check of the returned term: no identifier in it.
GlossaryNoIDReturned(payload) == payload.ID = ""

\* The identifier Update calls the endpoint with: the one of the state.
GlossaryUpdateID(data, st) == ValueString(st.ID)

GlossaryCreate ==
    /\ resource = "glossary"
    /\ ~state.exists
    /\ \E data \in GlossaryCreatePlans : \E term \in {GlossaryToCreateRequest(data)} :
            \/ \E err \in ApiErrors :
                 /\ op' = Invocation("Create", data, <<Call("PostGlossary", term, err, NoEntity)>>,
                                     <<"Client Error">>)
                 /\ UNCHANGED <<state, remote>>
            \/ \E id \in WireIDs, at \in GlossaryStamps :
                 LET payload == GlossaryTerm(term, id, at, at)
                     calls == <<Call("PostGlossary", term, "nil", payload)>>
                 IN /\ remote' = Held(payload)
                    /\ IF GlossaryNoIDReturned(payload)
                       THEN /\ op' = Invocation("Create", data, calls, <<"API Error">>)
                            /\ UNCHANGED state
                       ELSE /\ op' = Invocation("Create", data, calls, NoDiags)
                            /\ state' = Stored(GlossaryUpdateModelFromResponse(data, payload))
    /\ UNCHANGED resource

\* A Read that stores the description as returned, an empty one included,
\* where Create and Update store null for it.
GlossaryReadDescriptionAsReturned ==
    /\ resource = "glossary"
    /\ state.exists
    /\ remote.exists
    /\ LET data == GlossaryModel(state)
           term == GlossaryPayload(remote)
       IN /\ op' = Invocation("Read", data,
                               <<Call("GetGlossaryID", ValueString(data.ID), "nil", term)>>, NoDiags)
          /\ state' = Stored([GlossaryUpdateModelFromResponse(data, term)
                                EXCEPT !.Description = StringValue(term.Description)])
    /\ UNCHANGED <<resource, remote>>

GlossaryRead ==
    /\ resource = "glossary"
    /\ state.exists
    /\ LET data == GlossaryModel(state)
           id == ValueString(data.ID)
       IN IF ValueString(data.ID) = ""
          THEN /\ op' = Invocation("Read", data, <<>>, <<"Configuration Error">>)
               /\ UNCHANGED <<state, remote>>
          ELSE \/ \E err \in ApiErrors :
                    /\ op' = Invocation("Read", data, <<Call("GetGlossaryID", id, err, NoEntity)>>,
                                        <<"Client Error">>)
                    /\ remote' = IF err = "not_found" THEN NoEntity ELSE remote
                    /\ UNCHANGED state
               \/ /\ remote.exists
                  /\ op' = Invocation("Read", data, <<Call("GetGlossaryID", id, "nil", GlossaryPayload(remote))>>,
                                      NoDiags)
                  /\ state' = Stored(GlossaryUpdateModelFromResponse(data, GlossaryPayload(remote)))
                  /\ UNCHANGED remote
    /\ UNCHANGED resource

GlossaryUpdate ==
    /\ resource = "glossary"
    /\ state.exists
    /\ \E data \in GlossaryUpdatePlans(state) : \E term \in {GlossaryToUpdateRequest(data)} :
         LET st == GlossaryModel(state)
             arg == [id |-> GlossaryUpdateID(data, st), body |-> term]
         IN \/ \E err \in ApiErrors :
                 /\ op' = Invocation("Update", data, <<Call("PutGlossaryID", arg, err, NoEntity)>>,
                                     <<"Client Error">>)
                 /\ remote' = IF err = "not_found" THEN NoEntity ELSE remote
                 /\ UNCHANGED state
            \/ \E id \in WireIDs, at \in GlossaryStamps :
                 LET payload == GlossaryTerm(term, id, at, at)
                 IN /\ op' = Invocation("Update", data,
                                        <<Call("PutGlossaryID", arg, "nil", payload)>>, NoDiags)
                    /\ remote' = Held(payload)
                    /\ state' = Stored(GlossaryUpdateModelFromResponse(data, payload))
    /\ UNCHANGED resource

GlossaryDelete ==
    /\ resource = "glossary"
    /\ state.exists
    /\ LET data == GlossaryModel(state)
           id == ValueString(data.ID)
       IN \/ \E err \in ApiErrors :
              /\ op' = Invocation("Delete", data, <<Call("DeleteGlossaryID", id, err, NoEntity)>>,
                                  <<"Client Error">>)
              /\ remote' = IF err = "not_found" THEN NoEntity ELSE remote
              /\ UNCHANGED state
          \/ /\ op' = Invocation("Delete", data, <<Call("DeleteGlossaryID", id, "nil", NoEntity)>>,
                                 NoDiags)
             /\ state' = NoState
             /\ remote' = NoEntity
    /\ UNCHANGED resource

\* ImportState: the identifier given to the import goes into id; every
\* other attribute of the state is null.
\* The state ImportStatePassthroughID writes: the identifier under id, every
\* other attribute null.
GlossaryImported(id) ==
    [Name |-> StringNull, Definition |-> StringNull,
     Description |-> StringNull, ParentTermID |-> StringNull,
     Owners |-> NilSlice, Metadata |-> MapNull,
     ID |-> StringValue(id), CreatedAt |-> StringNull,
     UpdatedAt |-> StringNull]

GlossaryImportState ==
    /\ resource = "glossary"
    /\ ~state.exists
    /\ \E id \in ImportIDs :
         /\ op' = Invocation("ImportState", [ID |-> id], <<>>, NoDiags)
         /\ state' = Stored(GlossaryImported(id))
    /\ UNCHANGED <<resource, remote>>

-----------------------------------------------------------------------------
(* AssetResource, internal/provider/asset_resource.go: the converters      *)

\* The elements of string sets (services, tags) are byte strings, written
\* as the sequences of their byte values: <<66>> is "B", <<97>> is "a",
\* <<97, 98>> is "ab".  Go compares strings byte by byte.
RECURSIVE StrLess(_, _)
StrLess(a, b) ==
    IF a = <<>> THEN b # <<>>
    ELSE IF b = <<>> THEN FALSE
    ELSE IF Head(a) < Head(b) THEN TRUE
    ELSE IF Head(a) > Head(b) THEN FALSE
    ELSE StrLess(Tail(a), Tail(b))

\* Where sort.Strings puts x in an ascending sequence.
RECURSIVE Insert(_, _)
Insert(x, seq) ==
    IF seq = <<>> THEN <<x>>
    ELSE IF StrLess(Head(seq), x) THEN <<Head(seq)>> \o Insert(x, Tail(seq))
    ELSE <<x>> \o seq

\* sort.Strings: the elements in ascending byte order.
RECURSIVE SortStrings(_)
SortStrings(seq) ==
    IF seq = <<>> THEN <<>> ELSE Insert(Head(seq), SortStrings(Tail(seq)))

\* Set.ElementsAs into a []string: the elements in container order; a null
\* set leaves the slice nil, an unknown set is an error.
ElementsAs(set) ==
    IF IsUnknown(set) THEN [val |-> NilSlice, diags |-> <<"Value Conversion Error">>]
    ELSE IF IsNull(set) THEN [val |-> NilSlice, diags |-> NoDiags]
    ELSE [val |-> Slice(set.elems), diags |-> NoDiags]

\* A slice handed on as ElementsAs filled it, in container order.
SliceAsFilled(x) == x

\* sort.Strings on a slice, in place; a nil slice stays nil.
SortSlice(x) == IF x.nil THEN x ELSE Slice(SortStrings(x.elems))

\* The %T of an element of a types.Map.
GoTypeName(elem) ==
    CASE elem.ty = "string" -> "basetypes.StringValue"
      [] elem.ty = "int64" -> "basetypes.Int64Value"
      [] elem.ty = "bool" -> "basetypes.BoolValue"

\* The error of mapToDictionary for an element that is not a string.
TypeConversionError(elem) ==
    "Type Conversion Error: Expected string value, got " \o GoTypeName(elem)

\* mapToDictionary: nil for a null, unknown or empty map; an error for an
\* element that is not a string; otherwise the entries that are neither
\* null nor unknown, nil when none is left.  (The keys are visited in
\* sorted order; the result is a Go map and keeps no order.)
mapToDictionary(tfMap) ==
    IF IsNull(tfMap) \/ IsUnknown(tfMap) THEN [val |-> WireNil, diags |-> NoDiags]
    ELSE IF Cardinality(DOMAIN tfMap.elems) = 0 THEN [val |-> WireNil, diags |-> NoDiags]
    ELSE IF \E key \in DOMAIN tfMap.elems : tfMap.elems[key].ty # "string"
         THEN LET bad == SelectSeq(SortedKeys(DOMAIN tfMap.elems),
                                   LAMBDA key : tfMap.elems[key].ty # "string")
              IN [val |-> WireNil,
                  diags |-> <<TypeConversionError(tfMap.elems[bad[1]])>>]
    ELSE LET kept == { key \in DOMAIN tfMap.elems :
                         ~IsNull(tfMap.elems[key]) /\ ~IsUnknown(tfMap.elems[key]) }
         IN IF Cardinality(kept) = 0 THEN [val |-> WireNil, diags |-> NoDiags]
            ELSE [val |-> WireMap([key \in kept |->
                                     WireString(ValueString(tfMap.elems[key]))]),
                  diags |-> NoDiags]

\* mapToStringMap: as mapToDictionary, but an element that is not a string
\* is skipped without a diagnostic.
mapToStringMap(tfMap) ==
    IF IsNull(tfMap) \/ IsUnknown(tfMap) THEN NilMap
    ELSE IF Cardinality(DOMAIN tfMap.elems) = 0 THEN NilMap
    ELSE LET kept == { key \in DOMAIN tfMap.elems :
                         /\ tfMap.elems[key].ty = "string"
                         /\ ~IsNull(tfMap.elems[key])
                         /\ ~IsUnknown(tfMap.elems[key]) }
         IN IF Cardinality(kept) = 0 THEN NilMap
            ELSE GoMap([key \in kept |-> ValueString(tfMap.elems[key])])

\* External links sent as a list whatever their number: an empty list
\* where none is declared.
LinksAlwaysListed(links) ==
    Slice([i \in 1..len(links) |->
             [Icon |-> ValueString(links.elems[i].Icon),
              Name |-> ValueString(links.elems[i].Name),
              URL |-> ValueString(links.elems[i].URL)]])

convertExternalLinks(links) ==
    IF len(links) = 0 THEN NilSlice
    ELSE Slice([i \in 1..len(links) |->
                  LET link == links.elems[i]
                  IN [Icon |-> IF ~IsNull(link.Icon) /\ ~IsUnknown(link.Icon)
                               THEN ValueString(link.Icon) ELSE "",
                      Name |-> ValueString(link.Name),
                      URL |-> ValueString(link.URL)]])

\* diags after the diagnostics of a sequence of conversions have been
\* appended to it, in order.
RECURSIVE JoinDiags(_, _)
JoinDiags(diags, results) ==
    IF results = <<>> THEN diags
    ELSE JoinDiags(AppendDiags(diags, Head(results).diags), Tail(results))

\* convertSources appends to the diagnostics of its caller.
convertSources(sources, diags) ==
    IF len(sources) = 0 THEN [val |-> NilSlice, diags |-> diags]
    ELSE LET props == [i \in 1..len(sources) |-> mapToDictionary(sources.elems[i].Properties)]
         IN [val |-> Slice([i \in 1..len(sources) |->
                 LET source == sources.elems[i]
                 IN [Name |-> ValueString(source.Name),
                     Priority |-> IF ~IsNull(source.Priority) /\ ~IsUnknown(source.Priority)
                                  THEN ValueInt64(source.Priority) ELSE 0,
                     Properties |-> props[i].val]]),
             diags |-> JoinDiags(diags, props)]

\* The orders in which a range over a Go map may visit its keys: every
\* one.
RangeOrders(x) ==
    {order \in [1..lenMap(x) -> DOMAIN x.m] :
        \A i, j \in 1..lenMap(x) : order[i] = order[j] => i = j}

\* diags after the diagnostics of the conversions of a Go map's entries
\* have been appended to it, the entries visited in `order`.
MapDiags(diags, results, order) ==
    JoinDiags(diags, [i \in DOMAIN order |-> results[order[i]]])

\* convertEnvironments appends to the diagnostics of its caller; `order` is
\* the order in which its range visits the environments.
convertEnvironments(environments, diags, order) ==
    IF lenMap(environments) = 0 THEN [val |-> NilMap, diags |-> diags]
    ELSE LET md == [key \in DOMAIN environments.m |->
                      mapToDictionary(environments.m[key].Metadata)]
         IN [val |-> GoMap([key \in DOMAIN environments.m |->
                 [Name |-> ValueString(environments.m[key].Name),
                  Path |-> ValueString(environments.m[key].Path),
                  Metadata |-> md[key].val]]),
             diags |-> MapDiags(diags, md, order)]

\* The services of a request: ElementsAs, then sort.Strings.
RequestServices(data) ==
    LET got == ElementsAs(data.Services)
    IN [val |-> SortSlice(got.val), diags |-> got.diags]

\* The tags of a request: left nil for a null or unknown set.
RequestTags(data) ==
    IF ~IsNull(data.Tags) /\ ~IsUnknown(data.Tags)
    THEN LET got == ElementsAs(data.Tags)
         IN [val |-> SortSlice(got.val), diags |-> got.diags]
    ELSE [val |-> NilSlice, diags |-> NoDiags]

\* toCreateRequest and toUpdateRequest; `order` is the order in which the
\* range of convertEnvironments visits the declared environments.
toCreateRequest(data, order) ==
    LET services == RequestServices(data)
        tags == RequestTags(data)
        metadata == mapToDictionary(data.Metadata)
        schema == mapToStringMap(data.Schema)
        externalLinks == convertExternalLinks(data.ExternalLinks)
        sources == convertSources(data.Sources,
                     AppendDiags(AppendDiags(AppendDiags(NoDiags, services.diags),
                                             tags.diags), metadata.diags))
        environments == convertEnvironments(data.Environments, sources.diags, order)
    IN [val |-> [Name |-> ValueString(data.Name),
                 Type |-> ValueString(data.Type),
                 Description |-> ValueString(data.Description),
                 Providers |-> services.val,
                 Tags |-> tags.val,
                 Metadata |-> metadata.val,
                 Schema |-> schema,
                 ExternalLinks |-> externalLinks,
                 Sources |-> sources.val,
                 Environments |-> environments.val],
        diags |-> environments.diags]

toUpdateRequest(data, order) ==
    LET services == RequestServices(data)
        tags == RequestTags(data)
        metadata == mapToDictionary(data.Metadata)
        schema == mapToStringMap(data.Schema)
        externalLinks == convertExternalLinks(data.ExternalLinks)
        sources == convertSources(data.Sources,
                     AppendDiags(AppendDiags(AppendDiags(NoDiags, services.diags),
                                             tags.diags), metadata.diags))
        environments == convertEnvironments(data.Environments, sources.diags, order)
        userDescription ==
            IF ~IsNull(data.UserDescription) /\ ~IsUnknown(data.UserDescription)
            THEN ValueString(data.UserDescription) ELSE ""
    IN [val |-> [Name |-> ValueString(data.Name),
                 Type |-> ValueString(data.Type),
                 Description |-> ValueString(data.Description),
                 UserDescription |-> userDescription,
                 Providers |-> services.val,
                 Tags |-> tags.val,
                 Metadata |-> metadata.val,
                 Schema |-> schema,
                 ExternalLinks |-> externalLinks,
                 Sources |-> sources.val,
                 Environments |-> environments.val],
        diags |-> environments.diags]

-----------------------------------------------------------------------------
(* AssetResource: wire response to state                                   *)

\* A sequence of decimal digits plus one in its last place, and the carry
\* out of its first place.
RECURSIVE Incremented(_)
Incremented(ds) ==
    IF ds = <<>> THEN [digits |-> <<>>, carry |-> 1]
    ELSE IF ds[Len(ds)] < 9
    THEN [digits |-> [ds EXCEPT ![Len(ds)] = @ + 1], carry |-> 0]
    ELSE LET rest == Incremented(SubSeq(ds, 1, Len(ds) - 1))
         IN [digits |-> rest.digits \o <<0>>, carry |-> rest.carry]

\* floor(log2(n)) of a positive integer.
RECURSIVE FloorLog2(_)
FloorLog2(n) == IF n < 2 THEN 0 ELSE 1 + FloorLog2(n \div 2)

\* The doublings that bring a positive number below 10^7 to 10^7 or over.
RECURSIVE DoublingsToUnit(_)
DoublingsToUnit(n) ==
    IF n >= 10000000 THEN 0
    ELSE IF 128 * n < 10000000 THEN 7 + DoublingsToUnit(128 * n)
    ELSE 1 + DoublingsToUnit(2 * n)

\* (n * 2^k) mod 10^7.
RECURSIVE DoubledMod(_, _)
DoubledMod(n, k) ==
    IF k = 0 THEN n
    ELSE IF k >= 7 THEN DoubledMod((128 * n) % 10000000, k - 7)
    ELSE DoubledMod((2 * n) % 10000000, k - 1)

\* How the float64 nearest to whole.d1...d7 lies to that decimal: "below",
\* "equal" or "above".  The float64 is m / 2^k for the k that puts m in
\* 2^52 .. 2^53 - 1 and m the integer nearest to decimal * 2^k; the rest of
\* dividing (whole * 10^7 + d1...d7) * 2^k by 10^7 tells on which side of
\* the decimal m / 2^k lies.  The rest is never just the half of 10^7.
Float64Side(whole, seven) ==
    LET k == IF whole > 0 THEN 52 - FloorLog2(whole) ELSE 52 + DoublingsToUnit(seven)
        rest == DoubledMod(seven, k)
    IN IF rest = 0 THEN "equal" ELSE IF rest < 5000000 THEN "below" ELSE "above"

\* fmt.Sprintf("%.6f", v): six fractional digits, missing ones zero, the
\* float64 rounded to the nearest of them and, when it lies half way, to
\* the even one.  A decimal written with up to nine digits that is not
\* half way between two such numbers is further from the half way than
\* its float64 is from it (for a whole part below 2^22), and rounds as
\* written; one that is half way rounds as its float64 lies to it.
SprintfF6(val) ==
    LET d(i) == IF i <= Len(val.frac) THEN val.frac[i] ELSE 0
        six == [i \in 1..6 |-> d(i)]
        halfWay == d(7) = 5 /\ \A i \in 8..Len(val.frac) : val.frac[i] = 0
        seven == d(1) * 1000000 + d(2) * 100000 + d(3) * 10000 + d(4) * 1000
                   + d(5) * 100 + d(6) * 10 + d(7)
        side == Float64Side(val.whole, seven)
        up == IF halfWay
              THEN side = "above" \/ (side = "equal" /\ d(6) % 2 = 1)
              ELSE d(7) >= 5
        rounded == IF up THEN Incremented(six) ELSE [digits |-> six, carry |-> 0]
    IN ToString(val.whole + rounded.carry) \o "." \o Digits(rounded.digits)

\* The string convertMapToStringMapSorted makes of one value, "" when it
\* keeps none: a value of any other type is printed with %v.
ConvertedValue(val) ==
    CASE val.t = "nil" -> ""
      [] val.t = "string" -> val.v
      [] val.t = "int" -> ToString(val.n)
      [] val.t = "float" -> SprintfF6(val)
      [] val.t = "bool" -> IF val.b THEN "true" ELSE "false"
      [] OTHER -> SprintfV(val)

\* convertMapToStringMapSorted: nil values and empty strings are left out.
\* (The keys are visited in sorted order; the result is a Go map.)
convertMapToStringMapSorted(m) ==
    LET kept == { key \in DOMAIN m : ConvertedValue(m[key]) # "" }
    IN [key \in kept |-> ConvertedValue(m[key])]

\* types.MapValueFrom(ctx, types.StringType, map[string]string).
MapValueFrom(strs) == MapValue([key \in DOMAIN strs |-> StringValue(strs[key])])

convertModelExternalLinks(links) ==
    IF len(links) = 0 THEN Slice(<<>>)
    ELSE Slice([i \in 1..len(links) |->
                  LET link == links.elems[i]
                  IN [Name |-> StringValue(link.Name),
                      URL |-> StringValue(link.URL),
                      Icon |-> IF link.Icon # "" THEN StringValue(link.Icon)
                               ELSE StringNull]])

\* The properties of a source and the metadata of an environment: a map
\* value when the wire map has entries, null otherwise.
ModelProperties(wire) ==
    IF wire.t = "map" /\ Cardinality(DOMAIN wire.m) > 0
    THEN MapValueFrom(convertMapToStringMapSorted(wire.m))
    ELSE MapNull

convertModelSources(sources) ==
    IF len(sources) = 0 THEN Slice(<<>>)
    ELSE Slice([i \in 1..len(sources) |->
                  LET source == sources.elems[i]
                  IN [Name |-> StringValue(source.Name),
                      Priority |-> Int64Value(source.Priority),
                      Properties |-> ModelProperties(source.Properties)]])

convertModelEnvironments(environments) ==
    IF lenMap(environments) = 0 THEN GoMap(EmptyMap)
    ELSE GoMap([key \in DOMAIN environments.m |->
                  [Name |-> StringValue(environments.m[key].Name),
                   Path |-> StringValue(environments.m[key].Path),
                   Metadata |-> ModelProperties(environments.m[key].Metadata)]])

\* A string-set attribute holding a wire list in the order received.
StringSetAsReceived(list) == SetValue(list.elems)

\* A string-set attribute from a wire list: the list sorted, or the empty
\* set.
ModelStringSet(list) ==
    IF len(list) > 0 THEN SetValue(SortStrings(list.elems)) ELSE SetValue(<<>>)

\* "" on the wire is null in state.
OptionalString(str) == IF str # "" THEN StringValue(str) ELSE StringNull

\* The metadata of the model: the converted wire map, or the empty map.
ModelMetadata(wire) ==
    IF wire.t = "map" /\ Cardinality(DOMAIN wire.m) > 0
    THEN MapValueFrom(convertMapToStringMapSorted(wire.m))
    ELSE MapValueFrom(EmptyMap)

\* The schema of the model: the wire map, or the empty map.
ModelSchema(schema) ==
    IF lenMap(schema) > 0 THEN MapValueFrom(schema.m) ELSE MapValueFrom(EmptyMap)

\* updateModelFromResponse: every field of the model is taken from the
\* returned asset.
updateModelFromResponse(model, asset) ==
    [ID |-> StringValue(asset.ID),
     Name |-> StringValue(asset.Name),
     Type |-> StringValue(asset.Type),
     Description |-> StringValue(asset.Description),
     CreatedAt |-> StringValue(normalizeTimestamp(asset.CreatedAt)),
     CreatedBy |-> StringValue(asset.CreatedBy),
     UpdatedAt |-> StringValue(normalizeTimestamp(asset.UpdatedAt)),
     MRN |-> StringValue(asset.Mrn),
     UserDescription |-> OptionalString(asset.UserDescription),
     ParentMRN |-> OptionalString(asset.ParentMrn),
     Query |-> OptionalString(asset.Query),
     QueryLanguage |-> OptionalString(asset.QueryLanguage),
     HasRunHistory |-> BoolValue(asset.HasRunHistory),
     IsStub |-> BoolValue(asset.IsStub),
     LastSyncAt |-> IF asset.LastSyncAt # Text("")
                    THEN StringValue(normalizeTimestamp(asset.LastSyncAt))
                    ELSE StringNull,
     Services |-> ModelStringSet(asset.Providers),
     Tags |-> ModelStringSet(asset.Tags),
     Metadata |-> ModelMetadata(asset.Metadata),
     Schema |-> ModelSchema(asset.Schema),
     ExternalLinks |-> IF len(asset.ExternalLinks) > 0
                       THEN convertModelExternalLinks(asset.ExternalLinks)
                       ELSE NilSlice,
     Sources |-> IF len(asset.Sources) > 0 THEN convertModelSources(asset.Sources)
                 ELSE NilSlice,
     Environments |-> IF lenMap(asset.Environments) > 0
                      THEN convertModelEnvironments(asset.Environments)
                      ELSE GoMap(EmptyMap)]

-----------------------------------------------------------------------------
(* AssetResource: the handlers                                             *)

AssetMetadataInputs ==
    { MapValue(EmptyMap),
      MapValue([key \in {"owner", "tier"} |->
                  IF key = "owner" THEN StringValue("team") ELSE StringNull]) }

AssetLinksInputs ==
    { Slice(<<[Icon |-> StringNull, Name |-> StringValue("docs"),
               URL |-> StringValue("http://docs")],
              [Icon |-> StringValue("book"), Name |-> StringValue("wiki"),
               URL |-> StringValue("http://wiki")]>>) }

AssetSourcesInputs ==
    { Slice(<<[Name |-> StringValue("scan"), Priority |-> Int64Null,
               Properties |-> MapNull],
              [Name |-> StringValue("dbt"), Priority |-> Int64Value(2),
               Properties |-> MapValue([key \in {"job"} |-> StringValue("nightly")])]>>) }

AssetEnvironmentsInputs ==
    { GoMap([key \in {"dev"} |->
               [Name |-> StringValue("Development"), Path |-> StringValue("dev/orders"),
                Metadata |-> MapValue([k2 \in {"replicas"} |-> StringValue("1")])]]) }

\* What a configuration declares of an asset: an asset with only its
\* required attributes, and that asset with one more attribute declared.
AssetBaseConfig ==
    [Name |-> StringValue("orders"), Type |-> StringValue("table"),
     Description |-> StringNull, UserDescription |-> StringNull,
     Services |-> SetValue(<<<<97>>>>), Tags |-> SetNull,
     Metadata |-> MapNull, Schema |-> MapNull,
     ExternalLinks |-> NilSlice, Sources |-> NilSlice, Environments |-> NilMap]

AssetConfigs ==
    {AssetBaseConfig,
     [AssetBaseConfig EXCEPT !.Description = StringValue("about")],
     [AssetBaseConfig EXCEPT !.UserDescription = StringValue("note")],
     [AssetBaseConfig EXCEPT !.Services = SetValue(<<<<97, 98>>, <<66>>>>)],
     [AssetBaseConfig EXCEPT !.Tags = SetValue(<<>>)],
     [AssetBaseConfig EXCEPT !.Tags = SetValue(<<<<98>>, <<97>>>>)],
     [AssetBaseConfig EXCEPT !.Schema = MapValue([key \in {"id"} |-> StringValue("uuid")])]}
    \cup {[AssetBaseConfig EXCEPT !.Metadata = m] : m \in AssetMetadataInputs}
    \cup {[AssetBaseConfig EXCEPT !.ExternalLinks = l] : l \in AssetLinksInputs}
    \cup {[AssetBaseConfig EXCEPT !.Sources = x] : x \in AssetSourcesInputs}
    \cup {[AssetBaseConfig EXCEPT !.Environments = e] : e \in AssetEnvironmentsInputs}

\* Plans handed to Create: the computed attributes are not yet known.
AssetCreatePlans ==
    { c @@ [ID |-> UseStateForUnknown(FALSE, StringUnknown, StringNull),
            CreatedAt |-> UseStateForUnknown(FALSE, StringUnknown, StringNull),
            CreatedBy |-> UseStateForUnknown(FALSE, StringUnknown, StringNull),
            UpdatedAt |-> UseStateForUnknown(FALSE, StringUnknown, StringNull),
            LastSyncAt |-> UseStateForUnknown(FALSE, StringUnknown, StringNull),
            MRN |-> UseStateForUnknown(FALSE, StringUnknown, StringNull),
            ParentMRN |-> StringUnknown, Query |-> StringUnknown,
            QueryLanguage |-> StringUnknown, HasRunHistory |-> BoolUnknown,
            IsStub |-> BoolUnknown] : c \in AssetConfigs }

\* Plans handed to Update: id, created_at, created_by, updated_at,
\* last_sync_at and mrn carry UseStateForUnknown, the other computed
\* attributes are unknown again.
AssetUpdatePlans(st) ==
    { c @@ [ID |-> id, CreatedAt |-> UseStateForUnknown(TRUE, StringUnknown, st.CreatedAt),
            CreatedBy |-> UseStateForUnknown(TRUE, StringUnknown, st.CreatedBy),
            UpdatedAt |-> UseStateForUnknown(TRUE, StringUnknown, st.UpdatedAt),
            LastSyncAt |-> UseStateForUnknown(TRUE, StringUnknown, st.LastSyncAt),
            MRN |-> UseStateForUnknown(TRUE, StringUnknown, st.MRN),
            ParentMRN |-> StringUnknown, Query |-> StringUnknown,
            QueryLanguage |-> StringUnknown, HasRunHistory |-> BoolUnknown,
            IsStub |-> BoolUnknown] : c \in AssetConfigs, id \in PlanIDs(st) }

\* The fields of an asset the service fills in by itself.
AssetFacets ==
    { [CreatedAt |-> Stamp("2024-01-02T03:04:05", <<1, 2, 3, 4, 5, 6, 7, 8, 9>>, "Z"),
       CreatedBy |-> "admin",
       UpdatedAt |-> Stamp("2024-01-02T03:04:05", <<1, 2, 3, 4, 5, 6, 7, 8, 9>>, "Z"),
       Mrn |-> "mrn://table/orders", ParentMrn |-> "", Query |-> "",
       QueryLanguage |-> "", HasRunHistory |-> FALSE, IsStub |-> FALSE,
       LastSyncAt |-> Text("")],
      [CreatedAt |-> Stamp("2024-01-02T03:04:05", <<>>, "+02:00"),
       CreatedBy |-> "admin",
       UpdatedAt |-> Text("yesterday"),
       Mrn |-> "mrn://table/orders", ParentMrn |-> "mrn://db/shop",
       Query |-> "select 1", QueryLanguage |-> "sql",
       HasRunHistory |-> TRUE, IsStub |-> TRUE,
       LastSyncAt |-> Stamp("2024-01-02T03:04:05", <<5>>, "Z")] }

\* The asset the service holds and answers after a create or update
\* request: what it was sent, under the identifier it chose and with the
\* fields it fills in.
AssetEntity(req, userDescription, id, facet) ==
    [ID |-> id, Name |-> req.Name, Type |-> req.Type,
     Description |-> req.Description, UserDescription |-> userDescription,
     Providers |-> req.Providers, Tags |-> req.Tags,
     Metadata |-> req.Metadata, Schema |-> req.Schema,
     ExternalLinks |-> req.ExternalLinks, Sources |-> req.Sources,
     Environments |-> req.Environments] @@ facet

\* The model a handler decodes from the stored state.
AssetModel(st) == [f \in DOMAIN st \ {"exists"} |-> st[f]]

\* The payload of a read: the asset as held.
AssetPayload(held) == [f \in DOMAIN held \ {"exists"} |-> held[f]]

\* A Create that accepts whatever asset is returned.
AssetAnyIDAccepted(payload) == FALSE

\* Create's check of the returned asset: no identifier in it.
AssetNoIDReturned(payload) == payload.ID = ""

\* The identifier carried by the plan.
AssetPlanID(data, st) == ValueString(data.ID)

\* The identifier Update calls the endpoint with: the one of the state.
AssetUpdateID(data, st) == ValueString(st.ID)

AssetCreate ==
    /\ resource = "asset"
    /\ ~state.exists
    /\ \E data \in AssetCreatePlans : \E order \in RangeOrders(data.Environments) :
       \E asset \in {toCreateRequest(data, order)} :
            IF HasError(asset.diags)
            THEN /\ op' = Invocation("Create", data, <<>>, asset.diags)
                 /\ UNCHANGED <<state, remote>>
            ELSE \/ \E err \in ApiErrors :
                      /\ op' = Invocation("Create", data,
                                          <<Call("PostAssets", asset.val, err, NoEntity)>>,
                                          <<"Client Error">>)
                      /\ UNCHANGED <<state, remote>>
                 \/ \E id \in WireIDs, facet \in AssetFacets :
                      LET payload == AssetEntity(asset.val, "", id, facet)
                          calls == <<Call("PostAssets", asset.val, "nil", payload)>>
                      IN /\ remote' = Held(payload)
                         /\ IF AssetNoIDReturned(payload)
                            THEN /\ op' = Invocation("Create", data, calls, <<"API Error">>)
                                 /\ UNCHANGED state
                            ELSE /\ op' = Invocation("Create", data, calls, NoDiags)
                                 /\ state' = Stored(updateModelFromResponse(data, payload))
    /\ UNCHANGED resource

AssetRead ==
    /\ resource = "asset"
    /\ state.exists
    /\ LET data == AssetModel(state)
           id == ValueString(data.ID)
       IN IF ValueString(data.ID) = ""
          THEN /\ op' = Invocation("Read", data, <<>>, <<"Configuration Error">>)
               /\ UNCHANGED <<state, remote>>
          ELSE \/ \E err \in ApiErrors :
                    /\ op' = Invocation("Read", data, <<Call("GetAssetsID", id, err, NoEntity)>>,
                                        <<"Client Error">>)
                    /\ remote' = IF err = "not_found" THEN NoEntity ELSE remote
                    /\ UNCHANGED state
               \/ /\ remote.exists
                  /\ op' = Invocation("Read", data, <<Call("GetAssetsID", id, "nil", AssetPayload(remote))>>,
                                      NoDiags)
                  /\ state' = Stored(updateModelFromResponse(data, AssetPayload(remote)))
                  /\ UNCHANGED remote
    /\ UNCHANGED resource

AssetUpdate ==
    /\ resource = "asset"
    /\ state.exists
    /\ \E data \in AssetUpdatePlans(state) : \E order \in RangeOrders(data.Environments) :
       \E asset \in {toUpdateRequest(data, order)} :
         LET st == AssetModel(state)
             arg == [id |-> AssetUpdateID(data, st), body |-> asset.val]
         IN IF HasError(asset.diags)
            THEN /\ op' = Invocation("Update", data, <<>>, asset.diags)
                 /\ UNCHANGED <<state, remote>>
            ELSE \/ \E err \in ApiErrors :
                      /\ op' = Invocation("Update", data,
                                          <<Call("PutAssetsID", arg, err, NoEntity)>>,
                                          <<"Client Error">>)
                      /\ remote' = IF err = "not_found" THEN NoEntity ELSE remote
                      /\ UNCHANGED state
                 \/ \E id \in WireIDs, facet \in AssetFacets :
                      LET payload == AssetEntity(asset.val, asset.val.UserDescription,
                                                 id, facet)
                      IN /\ op' = Invocation("Update", data,
                                             <<Call("PutAssetsID", arg, "nil", payload)>>, NoDiags)
                         /\ remote' = Held(payload)
                         /\ state' = Stored(updateModelFromResponse(data, payload))
    /\ UNCHANGED resource

AssetDelete ==
    /\ resource = "asset"
    /\ state.exists
    /\ LET data == AssetModel(state)
           id == ValueString(data.ID)
       IN \/ \E err \in ApiErrors :
              /\ op' = Invocation("Delete", data, <<Call("DeleteAssetsID", id, err, NoEntity)>>,
                                  <<"Client Error">>)
              /\ remote' = IF err = "not_found" THEN NoEntity ELSE remote
              /\ UNCHANGED state
          \/ /\ op' = Invocation("Delete", data, <<Call("DeleteAssetsID", id, "nil", NoEntity)>>,
                                 NoDiags)
             /\ state' = NoState
             /\ remote' = NoEntity
    /\ UNCHANGED resource

\* ImportState: the identifier given to the import goes into id; every
\* other attribute of the state is null.
\* The state ImportStatePassthroughID writes: the identifier under id, every
\* other attribute null.
AssetImported(id) ==
    [Name |-> StringNull, Type |-> StringNull,
     Description |-> StringNull, UserDescription |-> StringNull,
     Services |-> SetNull, Tags |-> SetNull,
     Metadata |-> MapNull, Schema |-> MapNull,
     ExternalLinks |-> NilSlice, Sources |-> NilSlice,
     Environments |-> NilMap,
     ID |-> StringValue(id), CreatedAt |-> StringNull,
     CreatedBy |-> StringNull, UpdatedAt |-> StringNull,
     LastSyncAt |-> StringNull, MRN |-> StringNull,
     ParentMRN |-> StringNull, Query |-> StringNull,
     QueryLanguage |-> StringNull, HasRunHistory |-> BoolNull,
     IsStub |-> BoolNull]

AssetImportState ==
    /\ resource = "asset"
    /\ ~state.exists
    /\ \E id \in ImportIDs :
         /\ op' = Invocation("ImportState", [ID |-> id], <<>>, NoDiags)
         /\ state' = Stored(AssetImported(id))
    /\ UNCHANGED <<resource, remote>>

-----------------------------------------------------------------------------
Init ==
    /\ resource \in {"asset", "glossary", "lineage", "lineage_part_002"}
    /\ state = NoState
    /\ remote = NoEntity
    /\ op = NoInvocation

Next ==
    \/ LineageCreate
    \/ LineageRead
    \/ LineageUpdate
    \/ LineageDelete
    \/ LineageImportState
    \/ LineageCreateP2
    \/ LineageReadP2
    \/ LineageUpdateP2
    \/ LineageDeleteP2
    \/ LineageImportStateP2
    \/ GlossaryCreate
    \/ GlossaryRead
    \/ GlossaryUpdate
    \/ GlossaryDelete
    \/ GlossaryImportState
    \/ AssetCreate
    \/ AssetRead
    \/ AssetUpdate
    \/ AssetDelete
    \/ AssetImportState

Spec == Init /\ [][Next]_vars

-----------------------------------------------------------------------------
(* Properties of the handlers                                              *)

IsLineage == resource \in {"lineage", "lineage_part_002"}
HasTermOrAsset == resource \in {"asset", "glossary"}

\* The identifier attribute of a stored state: resource_id for a lineage
\* edge, id for an asset and a glossary term.
StateID(st) == IF "ResourceID" \in DOMAIN st THEN st.ResourceID ELSE st.ID

\* The last handler made exactly one API call, answered with `err`.
Answered(o, err) == Len(o.calls) = 1 /\ o.calls[1].err = err

\* C1: an Update on a LineageEdge always fails with an error diagnostic,
\* makes no call to the catalog API and leaves the stored state unchanged.
C1_LineageUpdateRejected ==
    [][(IsLineage /\ op'.name = "Update")
         => (HasError(op'.diags) /\ op'.calls = <<>> /\ state' = state)]_vars

\* C2: for every entity kind, a Delete whose delete call is answered with
\* not-found reports no error diagnostic and the instance leaves the state.
C2_DeleteNotFoundSucceeds ==
    (op.name = "Delete" /\ Answered(op, "not_found"))
      => (~HasError(op.diags) /\ ~state.exists)

\* C3: a Create of an Asset or a GlossaryTerm whose create call succeeds
\* with an empty identifier reports an error and stores no state; a state
\* stored by such a Create has a non-empty id.
C3_CreateRequiresID ==
    (HasTermOrAsset /\ op.name = "Create")
      => /\ (Answered(op, "nil") /\ op.calls[1].res.ID = "")
              => (HasError(op.diags) /\ ~state.exists)
         /\ state.exists => (state.ID.k = "value" /\ state.ID.v # "")

C3_Witness ==
    /\ resource = "asset"
    /\ op.name = "Create"
    /\ Answered(op, "nil")
    /\ op.calls[1].res.ID = ""
    /\ HasError(op.diags)
    /\ ~state.exists

\* C4: every state stored by a Create of a LineageEdge has a non-empty
\* resource_id; a create call that returns an empty identifier makes Create
\* fail and store nothing.
C4_LineageCreateRequiresID ==
    (IsLineage /\ op.name = "Create")
      => /\ (Answered(op, "nil") /\ op.calls[1].res.ID = "")
              => (HasError(op.diags) /\ ~state.exists)
         /\ state.exists => (state.ResourceID.k = "value" /\ state.ResourceID.v # "")

\* C5: for every entity kind, a Read of a state whose identifier is null
\* or empty fails with a configuration error, calls no endpoint and writes
\* no state.
C5_ReadRequiresID ==
    [][(op'.name = "Read" /\ state.exists /\ ValueString(StateID(state)) = "")
         => (op'.diags = <<"Configuration Error">> /\ op'.calls = <<>>
             /\ state' = state)]_vars

\* C6: an Update of an Asset or a GlossaryTerm calls the update endpoint
\* with the identifier of the current state, whatever identifier the plan
\* carries.
C6_UpdateUsesStateID ==
    [][(HasTermOrAsset /\ op'.name = "Update" /\ op'.calls # <<>>)
         => (/\ Len(op'.calls) = 1
             /\ op'.calls[1].ep \in {"PutAssetsID", "PutGlossaryID"}
             /\ op'.calls[1].arg.id = ValueString(state.ID))]_vars

C6_Witness ==
    /\ resource = "asset"
    /\ op.name = "Update"
    /\ Len(op.calls) = 1
    /\ op.request.ID.k = "value"
    /\ op.request.ID.v # op.calls[1].arg.id

\* C7: after a successful Update of an Asset or a GlossaryTerm the stored
\* identifier is the one stored before, whatever entity the service
\* returned.
C7_UpdatePreservesID ==
    [][(HasTermOrAsset /\ op'.name = "Update" /\ ~HasError(op'.diags))
         => (state'.exists /\ state'.ID = state.ID)]_vars

\* C8: a stored LineageEdge keeps the source and target it was created
\* with: no step changes them in place.
C8_LineageEndpointsFixed ==
    [][(IsLineage /\ state.exists /\ state'.exists)
         => (state'.Source = state.Source /\ state'.Target = state.Target)]_vars

-----------------------------------------------------------------------------
(* The string-set converters of the asset (services, tags) on their own:   *)
(* a model decoded from a plan, turned into a request, and rebuilt from    *)
(* the asset the service echoes.                                           *)

\* The most elements a services or tags set holds here.
MaxSetSize == 2

Words == {<<66>>, <<97>>, <<97, 98>>}

Range(seq) == {seq[i] : i \in DOMAIN seq}

\* The duplicate-free lists of at most MaxSetSize words, in every order: a
\* set container holds no element twice.
StringLists ==
    { l \in UNION {[1..n -> Words] : n \in 0..MaxSetSize} :
        Cardinality(Range(l)) = Len(l) }

\* Create plans that differ in services (at least one element) and tags.
SetPlans ==
    { [data EXCEPT !.Services = SetValue(services), !.Tags = tags] :
        data \in {d \in AssetCreatePlans : d.Description = StringNull
                                           /\ d.UserDescription = StringNull
                                           /\ d.Metadata = MapNull
                                           /\ d.Schema = MapNull
                                           /\ d.ExternalLinks = NilSlice
                                           /\ d.Sources = NilSlice
                                           /\ d.Environments = NilMap
                                           /\ d.Tags = SetNull
                                           /\ d.Services = AssetBaseConfig.Services},
        services \in StringLists \ {<<>>},
        tags \in {SetNull} \cup {SetValue(l) : l \in StringLists} }

Reverse(seq) == [i \in 1..Len(seq) |-> seq[Len(seq) + 1 - i]]

\* The service answers a list as sent or in another order.
Echoes(list) == {list, [list EXCEPT !.elems = Reverse(list.elems)]}

SetsInit ==
    /\ resource = "asset"
    /\ state = NoState
    /\ remote = NoEntity
    /\ op = NoInvocation

\* The model a handler decodes from a plan.
SetsPlan ==
    /\ \E data \in SetPlans :
         /\ state' = Stored(data)
         /\ op' = Invocation("Plan", data, <<>>, NoDiags)
    /\ remote' = NoEntity
    /\ UNCHANGED resource

\* The service's answer to a request it accepted.
SetsAnswer(name, ep, model, req, userDescription) ==
    \E providers \in Echoes(req.val.Providers), tags \in Echoes(req.val.Tags),
       facet \in AssetFacets :
      LET asset == AssetEntity([req.val EXCEPT !.Providers = providers, !.Tags = tags],
                               userDescription, "id-1", facet)
      IN /\ op' = Invocation(name, model, <<Call(ep, req.val, "nil", asset)>>, req.diags)
         /\ remote' = Held(asset)

\* toCreateRequest on the model in hand, and the service's answer.
SetsToCreateRequest ==
    /\ state.exists
    /\ \E order \in RangeOrders(AssetModel(state).Environments) :
       \E req \in {toCreateRequest(AssetModel(state), order)} :
         SetsAnswer("toCreateRequest", "PostAssets", AssetModel(state), req, "")
    /\ UNCHANGED <<resource, state>>

\* toUpdateRequest on the model in hand, and the service's answer.
SetsToUpdateRequest ==
    /\ state.exists
    /\ \E order \in RangeOrders(AssetModel(state).Environments) :
       \E req \in {toUpdateRequest(AssetModel(state), order)} :
         SetsAnswer("toUpdateRequest", "PutAssetsID", AssetModel(state), req,
                    req.val.UserDescription)
    /\ UNCHANGED <<resource, state>>

\* updateModelFromResponse on the answered asset.
SetsFromResponse ==
    /\ state.exists
    /\ remote.exists
    /\ state' = Stored(updateModelFromResponse(AssetModel(state), AssetPayload(remote)))
    /\ op' = Invocation("updateModelFromResponse", AssetModel(state), <<>>, NoDiags)
    /\ remote' = NoEntity
    /\ UNCHANGED resource

SetsNext ==
    \/ SetsPlan
    \/ SetsToCreateRequest
    \/ SetsToUpdateRequest
    \/ SetsFromResponse

SpecSets == SetsInit /\ [][SetsNext]_vars

\* Strictly ascending in byte order: sorted and free of duplicates.
Ascending(seq) == \A i \in 1..(Len(seq) - 1) : StrLess(seq[i], seq[i + 1])

\* The elements a set attribute holds; none for a null set.
Elements(set) == IF IsNull(set) \/ IsUnknown(set) THEN {} ELSE Range(set.elems)

SameSets(a, b) ==
    /\ Elements(a.Services) = Elements(b.Services)
    /\ Elements(a.Tags) = Elements(b.Tags)
    /\ IsNull(a.Tags) = IsNull(b.Tags)

\* C9: in every asset create and update request the services list and the
\* tags list are strictly ascending (sorted, no duplicates) and hold the
\* elements of the model's sets, and every plan with the same sets yields
\* the same two lists.
C9_RequestSetsSorted ==
    (op.name \in {"toCreateRequest", "toUpdateRequest"})
      => LET req == op.calls[1].arg
         IN /\ Ascending(req.Providers.elems)
            /\ Ascending(req.Tags.elems)
            /\ Range(req.Providers.elems) = Elements(op.request.Services)
            /\ Range(req.Tags.elems) = Elements(op.request.Tags)
            /\ \A other \in SetPlans :
                 SameSets(other, op.request)
                   => \A order \in RangeOrders(other.Environments) :
                        /\ toCreateRequest(other, order).val.Providers = req.Providers
                        /\ toCreateRequest(other, order).val.Tags = req.Tags
                        /\ toUpdateRequest(other, order).val.Providers = req.Providers
                        /\ toUpdateRequest(other, order).val.Tags = req.Tags

\* A request built from a plan whose services and tags are declared out of
\* order.
C9_Witness ==
    /\ op.name = "toUpdateRequest"
    /\ op.request.Services = SetValue(<<<<97, 98>>, <<66>>>>)
    /\ op.request.Tags = SetValue(<<<<97>>, <<66>>>>)
    /\ op.calls[1].arg.Providers = Slice(<<<<66>>, <<97, 98>>>>)
    /\ op.calls[1].arg.Tags = Slice(<<<<66>>, <<97>>>>)

\* A model rebuilt by updateModelFromResponse, not decoded from a plan.
Rebuilt(st) == st.exists /\ ~IsUnknown(st.ID)

\* C10: rebuilding the model from the echo of its own request keeps the
\* elements of services and tags, leaves them sorted, and, once the model
\* has been rebuilt, changes neither set in any way.
C10_SetRoundTripIdempotent ==
    [][(op'.name = "updateModelFromResponse")
         => /\ Elements(state'.Services) = Elements(state.Services)
            /\ Elements(state'.Tags) = Elements(state.Tags)
            /\ Ascending(state'.Services.elems)
            /\ Ascending(state'.Tags.elems)
            /\ Rebuilt(state)
                 => /\ state'.Services = state.Services
                    /\ state'.Tags = state.Tags]_vars

\* A rebuilt model, with two services and two tags, rebuilt once more.
C10_Witness ==
    /\ op.name = "updateModelFromResponse"
    /\ ~IsUnknown(op.request.ID)
    /\ op.request.Services = SetValue(<<<<66>>, <<97, 98>>>>)
    /\ op.request.Tags = SetValue(<<<<66>>, <<97>>>>)
    /\ state.Services = op.request.Services
    /\ state.Tags = op.request.Tags

-----------------------------------------------------------------------------
(* The converters on their own: each action applies one converter to an    *)
(* input drawn from a bounded set, leaves the input in `op.request` and    *)
(* the result in `state.out`.                                              *)

\* The most fractional-second digits a wire timestamp carries here.
MaxFracDigits == 7

MapKeys == {"a", "b"}

\* The elements of a types.Map of strings.
TfStrings == {StringNull, StringUnknown, StringValue("x"), StringValue("")}

\* Every types.Map over MapKeys: null, unknown, empty, or with entries.
TfMaps ==
    {MapNull, MapUnknown}
      \cup {MapValue(f) : f \in UNION {[keys -> TfStrings] : keys \in SUBSET MapKeys}}

\* The maps a plan holds for an Optional map attribute that is not Computed,
\* as the framework hands it to Create and Update: null or known, every
\* element a string that is null or known.
PlannedMaps ==
    {MapNull}
      \cup {MapValue(f) :
              f \in UNION {[keys -> {StringNull, StringValue("x"), StringValue("")}] :
                             keys \in SUBSET MapKeys}}

\* Maps that hold an element that is not a string.
TfMixedMaps ==
    {MapValue([key \in {"a"} |-> Int64Value(7)]),
     MapValue([key \in MapKeys |-> IF key = "a" THEN StringValue("x") ELSE Int64Value(7)]),
     MapValue([key \in MapKeys |-> IF key = "a" THEN StringNull ELSE BoolValue(TRUE)])}

\* The values of a weakly-typed wire map.
WireValues ==
    {WireNil, WireString("x"), WireString(""), WireInt(3), WireFloat(3, <<>>),
     WireFloat(2, <<5>>), WireFloat(1000000, <<>>), WireFloat(2, <<1, 2, 3, 4, 5, 6, 7>>),
     WireFloat(0, <<0, 0, 7, 8, 1, 2, 5>>), WireFloat(9, <<9, 9, 9, 9, 9, 9, 5>>),
     WireBool(TRUE), WireBool(FALSE), WireList(<<WireString("x"), WireNil>>)}

\* Every weakly-typed wire field over MapKeys: absent, empty, or with
\* entries.
WireMaps ==
    {WireNil}
      \cup {WireMap(f) : f \in UNION {[keys -> WireValues] : keys \in SUBSET MapKeys}}

\* The schema field of the wire (map[string]string): absent, empty, or
\* with entries.
WireSchemas ==
    {NilMap}
      \cup {GoMap(f) : f \in UNION {[keys -> {"x", ""}] : keys \in SUBSET MapKeys}}

\* Wire timestamps: RFC3339Nano strings with up to MaxFracDigits
\* fractional digits in several zones, and strings that do not parse.
TimestampInputs ==
    {Text(""), Text("yesterday")}
      \cup {Stamp("2024-01-02T03:04:05", frac, zone) :
              frac \in UNION {[1..n -> {0, 7}] : n \in 0..MaxFracDigits},
              zone \in {"Z", "+00:00", "+02:00"}}

LinkInputs ==
    {[Name |-> StringValue("docs"), URL |-> StringValue("http://docs"), Icon |-> icon] :
        icon \in {StringNull, StringUnknown, StringValue("book")}}

\* Declared external_links: none, an empty list, one link, two links.
LinkLists ==
    {NilSlice, Slice(<<>>)}
      \cup {Slice(<<l>>) : l \in LinkInputs}
      \cup {Slice(<<[Name |-> StringValue("wiki"), URL |-> StringValue("http://wiki"),
                     Icon |-> StringValue("w")], l>>) : l \in LinkInputs}

SourceInputs ==
    {[Name |-> StringValue("etl"), Priority |-> priority, Properties |-> properties] :
        priority \in {Int64Null, Int64Value(2)}, properties \in TfMaps}

\* Declared sources: none, an empty list, one source, two sources.
SourceLists ==
    {NilSlice, Slice(<<>>)}
      \cup {Slice(<<x>>) : x \in SourceInputs}
      \cup {Slice(<<[Name |-> StringValue("dbt"), Priority |-> Int64Value(1),
                     Properties |-> MapNull], x>>) :
              x \in {y \in SourceInputs : y.Properties = MapNull}}

\* Declared environments: none, an empty map, one environment.
EnvironmentMaps ==
    {NilMap, GoMap(EmptyMap)}
      \cup {GoMap([key \in {"dev"} |->
                     [Name |-> StringValue("Development"), Path |-> StringValue("dev/orders"),
                      Metadata |-> metadata]]) : metadata \in TfMaps}

\* The create plan of the base configuration.
BasePlan == CHOOSE d \in AssetCreatePlans :
                \A f \in DOMAIN AssetBaseConfig : d[f] = AssetBaseConfig[f]

\* Plans whose maps hold elements that are not strings: the same error
\* from the metadata and from a source, and two environments with errors
\* that differ.
MixedPlans ==
    {[BasePlan EXCEPT
        !.Metadata = MapValue([key \in {"a"} |-> Int64Value(7)]),
        !.Sources = Slice(<<[Name |-> StringValue("etl"), Priority |-> Int64Value(2),
                             Properties |-> MapValue([key \in {"a"} |-> Int64Value(7)])]>>)],
     [BasePlan EXCEPT
        !.Environments = GoMap([key \in {"dev", "prod"} |->
            [Name |-> StringValue(key), Path |-> StringValue("orders"),
             Metadata |-> MapValue([k2 \in {"a"} |->
                            IF key = "dev" THEN Int64Value(7) ELSE BoolValue(TRUE)])]])]}

\* Plans that differ from the base plan in one nested collection.
NestedPlans ==
    {[BasePlan EXCEPT !.ExternalLinks = l] : l \in LinkLists}
      \cup {[BasePlan EXCEPT !.Sources = x] : x \in SourceLists}
      \cup {[BasePlan EXCEPT !.Environments = e] : e \in EnvironmentMaps}
      \cup MixedPlans

\* The result a converter leaves in `state`.
Result(out) == Stored([out |-> out])

ConvInit ==
    /\ resource = "asset"
    /\ state = NoState
    /\ remote = NoEntity
    /\ op = NoInvocation

\* The converters of the asset are applied to every map of strings and to
\* maps with elements that are not strings: also to the unknown maps and
\* elements no plan holds, which they have branches for.
ConvMapToDictionary ==
    /\ \E tfMap \in TfMaps \cup TfMixedMaps : \E r \in {mapToDictionary(tfMap)} :
         /\ op' = Invocation("mapToDictionary", tfMap, <<>>, r.diags)
         /\ state' = Result(r.val)
    /\ UNCHANGED <<resource, remote>>

ConvMapToStringMap ==
    /\ \E tfMap \in TfMaps \cup TfMixedMaps :
         /\ op' = Invocation("mapToStringMap", tfMap, <<>>, NoDiags)
         /\ state' = Result(mapToStringMap(tfMap))
    /\ UNCHANGED <<resource, remote>>

\* The metadata block of the glossary term is applied to the same maps:
\* it has branches for an unknown map, for an unknown element (kept with the
\* empty string) and for an element that is not a string (skipped).
ConvGlossaryRequestMetadata ==
    /\ \E tfMap \in TfMaps \cup TfMixedMaps :
         /\ op' = Invocation("GlossaryRequestMetadata", tfMap, <<>>, NoDiags)
         /\ state' = Result(GlossaryRequestMetadata(tfMap))
    /\ UNCHANGED <<resource, remote>>

ConvToCreateRequest ==
    /\ \E data \in NestedPlans : \E order \in RangeOrders(data.Environments) :
       \E r \in {toCreateRequest(data, order)} :
         /\ op' = Invocation("toCreateRequest", data, <<>>, r.diags)
         /\ state' = Result(r.val)
    /\ UNCHANGED <<resource, remote>>

ConvToUpdateRequest ==
    /\ \E data \in NestedPlans : \E order \in RangeOrders(data.Environments) :
       \E r \in {toUpdateRequest(data, order)} :
         /\ op' = Invocation("toUpdateRequest", data, <<>>, r.diags)
         /\ state' = Result(r.val)
    /\ UNCHANGED <<resource, remote>>

ConvModelMetadata ==
    /\ \E wire \in WireMaps :
         /\ op' = Invocation("ModelMetadata", wire, <<>>, NoDiags)
         /\ state' = Result(ModelMetadata(wire))
    /\ UNCHANGED <<resource, remote>>

ConvModelProperties ==
    /\ \E wire \in WireMaps :
         /\ op' = Invocation("ModelProperties", wire, <<>>, NoDiags)
         /\ state' = Result(ModelProperties(wire))
    /\ UNCHANGED <<resource, remote>>

ConvModelSchema ==
    /\ \E schema \in WireSchemas :
         /\ op' = Invocation("ModelSchema", schema, <<>>, NoDiags)
         /\ state' = Result(ModelSchema(schema))
    /\ UNCHANGED <<resource, remote>>

ConvGlossaryModelMetadata ==
    /\ \E wire \in WireMaps :
         /\ op' = Invocation("GlossaryModelMetadata", wire, <<>>, NoDiags)
         /\ state' = Result(GlossaryModelMetadata(wire))
    /\ UNCHANGED <<resource, remote>>

ConvNormalizeTimestamp ==
    /\ \E timestamp \in TimestampInputs :
         /\ op' = Invocation("normalizeTimestamp", timestamp, <<>>, NoDiags)
         /\ state' = Result(normalizeTimestamp(timestamp))
    /\ UNCHANGED <<resource, remote>>

ConvNext ==
    \/ ConvMapToDictionary
    \/ ConvMapToStringMap
    \/ ConvGlossaryRequestMetadata
    \/ ConvToCreateRequest
    \/ ConvToUpdateRequest
    \/ ConvModelMetadata
    \/ ConvModelProperties
    \/ ConvModelSchema
    \/ ConvGlossaryModelMetadata
    \/ ConvNormalizeTimestamp

SpecConv == ConvInit /\ [][ConvNext]_vars

\* The keys of a types.Map whose values are neither null nor unknown.
KnownKeys(tfMap) ==
    IF IsNull(tfMap) \/ IsUnknown(tfMap) THEN {}
    ELSE {key \in DOMAIN tfMap.elems : tfMap.elems[key].k = "value"}

\* What a mapping is sent as: absent when it has no known entry, the known
\* entries with their values otherwise.
SentDictionary(tfMap) ==
    IF KnownKeys(tfMap) = {} THEN WireNil
    ELSE WireMap([key \in KnownKeys(tfMap) |-> WireString(tfMap.elems[key].v)])

SentStringMap(tfMap) ==
    IF KnownKeys(tfMap) = {} THEN NilMap
    ELSE GoMap([key \in KnownKeys(tfMap) |-> tfMap.elems[key].v])

\* C11: every outbound mapping (asset metadata, asset schema, per-source
\* properties, per-environment metadata, glossary metadata) is sent without
\* its null and unknown entries, and as absent when no entry is left.  The
\* asset converters do so on every map of strings; the glossary block on
\* every map a plan holds for the attribute.
C11_OutboundMapsDropUnset ==
    /\ (op.name = "mapToDictionary" /\ op.request \in TfMaps)
         => state.out = SentDictionary(op.request)
    /\ (op.name = "GlossaryRequestMetadata" /\ op.request \in PlannedMaps)
         => state.out = SentDictionary(op.request)
    /\ (op.name = "mapToStringMap" /\ op.request \in TfMaps)
         => state.out = SentStringMap(op.request)
    /\ (op.name \in {"toCreateRequest", "toUpdateRequest"} /\ ~HasError(op.diags))
         => /\ \A i \in 1..len(op.request.Sources) :
                 state.out.Sources.elems[i].Properties
                   = SentDictionary(op.request.Sources.elems[i].Properties)
            /\ \A key \in DOMAIN op.request.Environments.m :
                 state.out.Environments.m[key].Metadata
                   = SentDictionary(op.request.Environments.m[key].Metadata)

\* The metadata of a glossary term declared with a null entry and an entry
\* of value x, sent as the mapping of the one entry x.
C11_Witness ==
    /\ op.name = "GlossaryRequestMetadata"
    /\ op.request = MapValue([key \in MapKeys |->
                                IF key = "a" THEN StringNull ELSE StringValue("x")])
    /\ state.out = WireMap([key \in {"b"} |-> WireString("x")])

\* A weakly-typed wire mapping that is absent or has no entries.
WireEmpty(wire) == wire.t = "nil" \/ (wire.t = "map" /\ DOMAIN wire.m = {})

\* The last handler was a Read that stored the entity it was answered.
ReadStored == op.name = "Read" /\ Answered(op, "nil") /\ ~HasError(op.diags)

\* C12: a Read stores every mapping field whose wire field is absent or
\* empty (asset metadata and schema, per-source properties,
\* per-environment metadata, glossary metadata) as the empty mapping, never
\* as null.
C12_ReadStoresEmptyMaps ==
    /\ (HasTermOrAsset /\ ReadStored /\ WireEmpty(op.calls[1].res.Metadata))
         => state.Metadata = MapValue(EmptyMap)
    /\ (resource = "asset" /\ ReadStored)
         => LET asset == op.calls[1].res
            IN /\ lenMap(asset.Schema) = 0 => state.Schema = MapValue(EmptyMap)
               /\ \A i \in 1..len(asset.Sources) :
                    WireEmpty(asset.Sources.elems[i].Properties)
                      => state.Sources.elems[i].Properties = MapValue(EmptyMap)
               /\ \A key \in DOMAIN asset.Environments.m :
                    WireEmpty(asset.Environments.m[key].Metadata)
                      => state.Environments.m[key].Metadata = MapValue(EmptyMap)

\* The last handler stored the entity it was answered.
StoredAnswer ==
    /\ op.name \in {"Create", "Read", "Update"}
    /\ Answered(op, "nil")
    /\ ~HasError(op.diags)
    /\ state.exists

\* What an optional scalar of the wire is to be stored as.
NullIfEmpty(str) == IF str = "" THEN StringNull ELSE StringValue(str)

\* C13: every optional scalar converted inbound (link icon, asset
\* description and user_description, glossary description and
\* parent_term_id) is stored as null when the wire string is empty and as
\* that string otherwise.
C13_OptionalScalarsNullIfEmpty ==
    /\ (HasTermOrAsset /\ StoredAnswer)
         => state.Description = NullIfEmpty(op.calls[1].res.Description)
    /\ (resource = "glossary" /\ StoredAnswer)
         => state.ParentTermID = NullIfEmpty(op.calls[1].res.ParentTermID)
    /\ (resource = "asset" /\ StoredAnswer)
         => /\ state.UserDescription = NullIfEmpty(op.calls[1].res.UserDescription)
            /\ \A i \in 1..len(op.calls[1].res.ExternalLinks) :
                 state.ExternalLinks.elems[i].Icon
                   = NullIfEmpty(op.calls[1].res.ExternalLinks.elems[i].Icon)

\* The strings a number or boolean of a wire mapping may become: decimal
\* digits, "true" or "false", and for a float the nearest number of six
\* decimal places, either of the two for a float written half way
\* between them.
KindStrings(val) ==
    CASE val.t = "int" -> {ToString(val.n)}
      [] val.t = "float" ->
           LET d(i) == IF i <= Len(val.frac) THEN val.frac[i] ELSE 0
               halfWay == d(7) = 5 /\ \A i \in 8..Len(val.frac) : val.frac[i] = 0
               SixPlaces(add) ==
                   LET micro == d(1) * 100000 + d(2) * 10000 + d(3) * 1000 + d(4) * 100
                                  + d(5) * 10 + d(6) + add
                       part == micro % 1000000
                   IN ToString(val.whole + (micro \div 1000000)) \o "."
                        \o Digits(<<part \div 100000, (part \div 10000) % 10,
                                    (part \div 1000) % 10, (part \div 100) % 10,
                                    (part \div 10) % 10, part % 10>>)
           IN {SixPlaces(add) : add \in IF halfWay THEN {0, 1}
                                        ELSE IF d(7) >= 5 THEN {1} ELSE {0}}
      [] val.t = "bool" -> {IF val.b THEN "true" ELSE "false"}

\* C14: every inbound conversion of a weakly-typed wire mapping (asset
\* metadata, per-source properties, per-environment metadata, glossary
\* metadata) turns each integer, float and boolean into the string of its
\* kind, the same for every field and entity kind.
C14_WireValuesByKind ==
    (op.name \in {"ModelMetadata", "ModelProperties", "GlossaryModelMetadata"}
       /\ op.request.t = "map")
      => \A key \in DOMAIN op.request.m :
           op.request.m[key].t \in {"int", "float", "bool"}
             => /\ state.out.k = "value"
                /\ key \in DOMAIN state.out.elems
                /\ state.out.elems[key].k = "value"
                /\ state.out.elems[key].v \in KindStrings(op.request.m[key])

\* A zone that denotes the zero offset.
ZeroOffset(zone) == zone \in {"Z", "+00:00", "-00:00"}

\* C15: normalizeTimestamp writes every timestamp that parses as
\* RFC3339Nano with the same date, time and offset and exactly six
\* fractional digits (further digits cut, missing digits zero), and returns
\* every other string, the empty one included, unchanged; it reports no
\* error.
C15_NormalizeTimestamp ==
    (op.name = "normalizeTimestamp")
      => /\ op.diags = NoDiags
         /\ IF Parses(op.request)
            THEN /\ Parses(state.out)
                 /\ state.out.date = op.request.date
                 /\ (state.out.zone = op.request.zone
                       \/ (ZeroOffset(state.out.zone) /\ ZeroOffset(op.request.zone)))
                 /\ Len(state.out.frac) = 6
                 /\ \A i \in 1..6 :
                      state.out.frac[i]
                        = IF i <= Len(op.request.frac) THEN op.request.frac[i] ELSE 0
            ELSE state.out = op.request

\* A timestamp with seven fractional digits, cut to six.
C15_Witness ==
    /\ op.name = "normalizeTimestamp"
    /\ op.request = Stamp("2024-01-02T03:04:05", <<7, 0, 7, 0, 7, 0, 7>>, "+02:00")
    /\ state.out = Stamp("2024-01-02T03:04:05", <<7, 0, 7, 0, 7, 0>>, "+02:00")

\* C16: every timestamp normalizeTimestamp parses is returned in UTC, with
\* a zero offset, whatever offset the input carries.
C16_NormalizedInUTC ==
    (op.name = "normalizeTimestamp" /\ Parses(op.request))
      => (Parses(state.out) /\ ZeroOffset(state.out.zone))

\* C17: every timestamp an inbound conversion stores (asset created_at,
\* updated_at, last_sync_at; glossary created_at, updated_at) is the
\* normalized form of the wire value.
C17_StoredTimestampsNormalized ==
    /\ (HasTermOrAsset /\ StoredAnswer)
         => /\ state.CreatedAt = StringValue(normalizeTimestamp(op.calls[1].res.CreatedAt))
            /\ state.UpdatedAt = StringValue(normalizeTimestamp(op.calls[1].res.UpdatedAt))
    /\ (resource = "asset" /\ StoredAnswer /\ op.calls[1].res.LastSyncAt # Text(""))
         => state.LastSyncAt = StringValue(normalizeTimestamp(op.calls[1].res.LastSyncAt))

\* A framework value (string, bool, set, map) that is not unknown and, for
\* a map, holds no unknown element.
Determinate(val) ==
    /\ val.k # "unknown"
    /\ (val.ty = "map" /\ val.k = "value")
         => \A key \in DOMAIN val.elems : val.elems[key].k # "unknown"

\* Every attribute of a record is determinate.
DeterminateRecord(rec) == \A f \in DOMAIN rec : Determinate(rec[f])

\* An attribute of the stored state is determinate: a framework value, a
\* list of nested records or a map of nested records.
DeterminateAttribute(val) ==
    IF "ty" \in DOMAIN val THEN Determinate(val)
    ELSE IF "elems" \in DOMAIN val
         THEN \A i \in 1..Len(val.elems) : DeterminateRecord(val.elems[i])
    ELSE \A key \in DOMAIN val.m : DeterminateRecord(val.m[key])

\* C18: whenever a Create, Read or Update of any kind stores state, no
\* attribute of the stored record is unknown.
C18_StoredStateDeterminate ==
    state.exists
      => \A f \in DOMAIN state \ {"exists"} : DeterminateAttribute(state[f])

\* C19: an asset response whose tags, metadata or schema is empty or
\* omitted is stored as null by Create and as the empty container by Read.
C19_EmptyContainersByHandler ==
    (resource = "asset" /\ StoredAnswer)
      => LET asset == op.calls[1].res
         IN /\ op.name = "Create"
                 => /\ len(asset.Tags) = 0 => state.Tags = SetNull
                    /\ WireEmpty(asset.Metadata) => state.Metadata = MapNull
                    /\ lenMap(asset.Schema) = 0 => state.Schema = MapNull
            /\ op.name = "Read"
                 => /\ len(asset.Tags) = 0 => state.Tags = SetValue(<<>>)
                    /\ WireEmpty(asset.Metadata) => state.Metadata = MapValue(EmptyMap)
                    /\ lenMap(asset.Schema) = 0 => state.Schema = MapValue(EmptyMap)

\* The value of a string or integer attribute, its zero value when unset.
ValueOrZero(val, zero) == IF val.k = "value" THEN val.v ELSE zero

\* C20: in every asset create and update request a nested collection
\* (external_links, sources, environments) with no declared entry is sent
\* as absent, and every declared record is sent in its declared place with
\* its name, url or path, an unset priority as 0 and an unset icon as "".
C20_NestedRecordsSent ==
    (op.name \in {"toCreateRequest", "toUpdateRequest"})
      => LET data == op.request
             req == state.out
         IN /\ req.ExternalLinks.nil = (len(data.ExternalLinks) = 0)
            /\ len(req.ExternalLinks) = len(data.ExternalLinks)
            /\ \A i \in 1..len(data.ExternalLinks) :
                 /\ req.ExternalLinks.elems[i].Name = data.ExternalLinks.elems[i].Name.v
                 /\ req.ExternalLinks.elems[i].URL = data.ExternalLinks.elems[i].URL.v
                 /\ req.ExternalLinks.elems[i].Icon
                      = ValueOrZero(data.ExternalLinks.elems[i].Icon, "")
            /\ req.Sources.nil = (len(data.Sources) = 0)
            /\ len(req.Sources) = len(data.Sources)
            /\ \A i \in 1..len(data.Sources) :
                 /\ req.Sources.elems[i].Name = data.Sources.elems[i].Name.v
                 /\ req.Sources.elems[i].Priority
                      = ValueOrZero(data.Sources.elems[i].Priority, 0)
            /\ req.Environments.nil = (lenMap(data.Environments) = 0)
            /\ DOMAIN req.Environments.m = DOMAIN data.Environments.m
            /\ \A key \in DOMAIN data.Environments.m :
                 /\ req.Environments.m[key].Name = data.Environments.m[key].Name.v
                 /\ req.Environments.m[key].Path = data.Environments.m[key].Path.v

\* A request with two declared links, the second without icon.
C20_Witness ==
    /\ op.name = "toUpdateRequest"
    /\ len(op.request.ExternalLinks) = 2
    /\ op.request.ExternalLinks.elems[2].Icon = StringNull
    /\ state.out.ExternalLinks
         = Slice(<<[Icon |-> "w", Name |-> "wiki", URL |-> "http://wiki"],
                   [Icon |-> "", Name |-> "docs", URL |-> "http://docs"]>>)

\* C21: an asset nested collection (external_links, sources, environments)
\* that is absent in the plan of a Create, or in the state a Read starts
\* from, and for which the service returns no record, is stored as absent,
\* never as an explicit empty collection.
C21_AbsentCollectionsStayAbsent ==
    (resource = "asset" /\ StoredAnswer /\ op.name \in {"Create", "Read"})
      => LET asset == op.calls[1].res
         IN /\ (op.request.ExternalLinks.nil /\ len(asset.ExternalLinks) = 0)
                 => state.ExternalLinks = NilSlice
            /\ (op.request.Sources.nil /\ len(asset.Sources) = 0)
                 => state.Sources = NilSlice
            /\ (op.request.Environments.nil /\ lenMap(asset.Environments) = 0)
                 => state.Environments = NilMap

\* C23: a Create, Read or Delete of any kind, and an Update of an asset or a
\* glossary term, that completes without error has made exactly one API
\* call; no handler makes more than one.
C23_OneCallPerHandler ==
    /\ Len(op.calls) <= 1
    /\ (/\ \/ op.name \in {"Create", "Read", "Delete"}
           \/ (op.name = "Update" /\ resource \in {"asset", "glossary"})
        /\ ~HasError(op.diags))
         => Len(op.calls) = 1

\* The API call of a handler returned an error.
CallFailed(o) == Len(o.calls) > 0 /\ o.calls[1].err \in ApiErrors

\* C24: when the API call of a Create, Read, Update or Delete returns an
\* error, the handler reports an error diagnostic, makes no further call
\* and writes no state: the state after the handler is the state before it.
C24_FailedCallLeavesState ==
    [][CallFailed(op')
         => /\ op'.name \in {"Create", "Read", "Update", "Delete"}
            /\ HasError(op'.diags)
            /\ Len(op'.calls) = 1
            /\ state' = state]_vars

\* A state left by an Update whose call failed, the instance still stored.
C24_Witness ==
    /\ op.name = "Update"
    /\ CallFailed(op)
    /\ HasError(op.diags)
    /\ state.exists

-----------------------------------------------------------------------------
(* MarmotProvider (unnamed/part_001): Configure and Resources.  A host is   *)
(* spelled out as its sequence of characters, so that a prefix is tested    *)
(* and trimmed as the strings package does it.                              *)

\* The number of parts a configured host is put together from.
MaxHostParts == 3

HttpPrefix == <<"h", "t", "t", "p", ":", "/", "/">>
HttpsPrefix == <<"h", "t", "t", "p", "s", ":", "/", "/">>

\* strings.HasPrefix
HasPrefix(s, prefix) ==
    Len(s) >= Len(prefix) /\ SubSeq(s, 1, Len(prefix)) = prefix

\* The host left as configured, prefix and all.
PrefixKept(s, prefix) == s

\* strings.TrimPrefix: s without the prefix, once, or s itself.
TrimPrefix(s, prefix) ==
    IF HasPrefix(s, prefix) THEN SubSeq(s, Len(prefix) + 1, Len(s)) ELSE s

\* types.String.ValueString of a host: no character for null and unknown.
HostString(x) == IF x.k = "value" THEN x.v ELSE <<>>

\* The client built by httptransport.New(host, "/api/v1", {scheme}) with the
\* API key sent in the X-API-Key header.
Marmot(scheme, host, apiKey) ==
    [nil |-> FALSE, scheme |-> scheme, host |-> host, basePath |-> "/api/v1",
     header |-> "X-API-Key", apiKey |-> apiKey]

\* No client: ResourceData and DataSourceData left nil.
NoClient == [nil |-> TRUE]

\* Configure: an error for a null host, an error for a null api_key, and
\* with neither the client for the scheme and host derived from host.
ProviderConfigure(config) ==
    LET diags == (IF IsNull(config.Host) THEN <<"Missing Marmot API Host">> ELSE <<>>)
                   \o (IF IsNull(config.APIKey) THEN <<"Missing Marmot API Key">> ELSE <<>>)
        host == HostString(config.Host)
        apiKey == ValueString(config.APIKey)
        scheme == IF HasPrefix(host, HttpPrefix) THEN "http" ELSE "https"
        trimmed == IF HasPrefix(host, HttpPrefix) THEN TrimPrefix(host, HttpPrefix)
                   ELSE IF HasPrefix(host, HttpsPrefix) THEN TrimPrefix(host, HttpsPrefix)
                   ELSE host
        marmotClient == Marmot(scheme, trimmed, apiKey)
    IN IF HasError(diags)
       THEN [ResourceData |-> NoClient, DataSourceData |-> NoClient, diags |-> diags]
       ELSE [ResourceData |-> marmotClient, DataSourceData |-> marmotClient, diags |-> NoDiags]

\* Resources: the constructors the provider registers, in order.
Resources == <<"NewAssetResource", "NewLineageResource">>

\* The parts hosts are put together from, and the hosts of at most
\* MaxHostParts parts.
HostParts == {HttpPrefix, HttpsPrefix, <<"a">>, <<"h", "t", "t", "p">>, <<":", "/", "/">>}

RECURSIVE HostsOf(_)
HostsOf(n) ==
    IF n = 0 THEN {<<>>}
    ELSE HostsOf(n - 1) \cup {h \o part : h \in HostsOf(n - 1), part \in HostParts}

ProviderConfigs ==
    [Host : {StringNull, StringUnknown} \cup {StringValue(h) : h \in HostsOf(MaxHostParts)},
     APIKey : {StringNull, StringUnknown, StringValue(""), StringValue("k")}]

ProvInit ==
    /\ resource = "provider"
    /\ state = NoState
    /\ remote = NoEntity
    /\ op = NoInvocation

ProvConfigure ==
    /\ \E config \in ProviderConfigs : \E r \in {ProviderConfigure(config)} :
         /\ op' = Invocation("Configure", config, <<>>, r.diags)
         /\ state' = Stored([ResourceData |-> r.ResourceData,
                             DataSourceData |-> r.DataSourceData])
    /\ UNCHANGED <<resource, remote>>

ProvResources ==
    /\ op' = Invocation("Resources", NoState, <<>>, NoDiags)
    /\ state' = Result(Resources)
    /\ UNCHANGED <<resource, remote>>

ProvNext ==
    \/ ProvConfigure
    \/ ProvResources

SpecProvider == ProvInit /\ [][ProvNext]_vars

\* C26: the Resources list holds the constructors of the asset, the
\* glossary term and the lineage edge resources.
C26_ResourcesListed ==
    op.name = "Resources"
      => {"NewAssetResource", "NewGlossaryResource", "NewLineageResource"}
           \subseteq Range(state.out)

\* Configure answered a configuration whose host and api_key are known.
Configured == op.name = "Configure" /\ op.request.Host.k = "value"
                /\ ~IsNull(op.request.APIKey)

\* C30: Configure derives scheme and host from the configured host: with the
\* prefix "http://" the scheme is http and the host loses the prefix; with
\* "https://" the scheme is https and the host loses the prefix; otherwise
\* the scheme is https and the host is unchanged.  A null host or a null
\* api_key is an error and no client is handed to the resources.
C30_ConfigureSchemeAndHost ==
    /\ Configured
         => LET host == op.request.Host.v
                made == state.ResourceData
            IN /\ ~HasError(op.diags)
               /\ ~made.nil
               /\ state.DataSourceData = made
               /\ HasPrefix(host, HttpPrefix)
                    => made.scheme = "http" /\ HttpPrefix \o made.host = host
               /\ HasPrefix(host, HttpsPrefix)
                    => made.scheme = "https" /\ HttpsPrefix \o made.host = host
               /\ (~HasPrefix(host, HttpPrefix) /\ ~HasPrefix(host, HttpsPrefix))
                    => made.scheme = "https" /\ made.host = host
    /\ (op.name = "Configure" /\ (IsNull(op.request.Host) \/ IsNull(op.request.APIKey)))
         => /\ HasError(op.diags)
            /\ state.ResourceData = NoClient
            /\ state.DataSourceData = NoClient

\* A client made for an http host that goes on with "https://": only the
\* first prefix is taken off.
C30_Witness ==
    /\ Configured
    /\ HasPrefix(op.request.Host.v, HttpPrefix \o HttpsPrefix)
    /\ state.ResourceData.scheme = "http"
    /\ HasPrefix(state.ResourceData.host, HttpsPrefix)

\* A Read answered with the entity the step before it was answered with.
ReadOfSameEntity ==
    /\ resource \in {"asset", "glossary"}
    /\ StoredAnswer
    /\ op'.name = "Read"
    /\ Answered(op', "nil")
    /\ op'.calls[1].res = op.calls[1].res

\* C27: for an asset and a glossary term the state a Read stores depends on
\* the entity returned alone: a Read that follows a successful Create or
\* Update and is answered with the same entity stores exactly the state that
\* Create or Update stored, and a further such Read changes nothing.
C27_ReadRepeatsStoredState ==
    [][ReadOfSameEntity => state' = state]_vars

\* A Read of an asset answered with the entity a Create or Update before it
\* was answered with, environments and all, that left the state as it was.
C27_Witness ==
    /\ resource = "asset"
    /\ op.name = "Read"
    /\ StoredAnswer
    /\ op.request = AssetModel(state)
    /\ state = Stored(updateModelFromResponse(op.request, op.calls[1].res))

\* C28: the create request of an asset carries every declared attribute the
\* update request carries: a declared user_description is sent by Create,
\* and the state after Create holds it.
C28_CreateSendsUserDescription ==
    (/\ resource = "asset"
     /\ op.name = "Create"
     /\ StoredAnswer
     /\ op.request.UserDescription.k = "value"
     /\ ValueString(op.request.UserDescription) # "")
      => /\ "UserDescription" \in DOMAIN op.calls[1].arg
         /\ op.calls[1].arg.UserDescription = ValueString(op.request.UserDescription)
         /\ state.UserDescription = op.request.UserDescription

\* C29: the per-source properties and per-environment metadata that the
\* inbound conversion of an asset stores are null or hold at least one
\* entry, never an explicit empty mapping, also when the wire mapping
\* holds only nil or empty-string values.
C29_NestedMapsNullOrFilled ==
    op.name = "ModelProperties"
      => \/ state.out = MapNull
         \/ (state.out.k = "value" /\ DOMAIN state.out.elems # {})

-----------------------------------------------------------------------------
(* One resource object serving several instances.  The framework builds    *)
(* one AssetResource (one GlossaryResource), calls its Configure, and then  *)
(* calls its handlers for every instance of the kind, in any order.  Here   *)
(* `resource` is the object with its one field, and `state` and `remote`    *)
(* hold the stored state and the entity of each instance.                   *)

Instances == {"a", "b"}

\* What the provider may hand to Configure as ProviderData: nothing, a
\* client, or a value of another type.
OtherData == [nil |-> FALSE, type |-> "string"]

ProviderDatas ==
    {NoClient, OtherData, Marmot("https", <<"a">>, "k"), Marmot("http", <<"a">>, "k")}

\* The type assertion req.ProviderData.(*client.Marmot).
IsMarmot(providerData) == "scheme" \in DOMAIN providerData

\* The declared attributes of the instances: the base configuration and one
\* that differs from it.
SharedAssetConfigs ==
    {AssetBaseConfig, [AssetBaseConfig EXCEPT !.Description = StringValue("about")]}

SharedGlossaryConfigs ==
    {GlossaryBaseConfig, [GlossaryBaseConfig EXCEPT !.Description = StringValue("about")]}

\* The plans of the single-instance handlers, for these configurations and
\* with the identifier of the state.
SharedAssetCreatePlans ==
    {data \in AssetCreatePlans :
        [f \in DOMAIN AssetBaseConfig |-> data[f]] \in SharedAssetConfigs}

SharedAssetUpdatePlans(st) ==
    {data \in AssetUpdatePlans(st) :
        /\ [f \in DOMAIN AssetBaseConfig |-> data[f]] \in SharedAssetConfigs
        /\ data.ID = st.ID}

SharedGlossaryCreatePlans ==
    {data \in GlossaryCreatePlans :
        [f \in DOMAIN GlossaryBaseConfig |-> data[f]] \in SharedGlossaryConfigs}

SharedGlossaryUpdatePlans(st) ==
    {data \in GlossaryUpdatePlans(st) :
        /\ [f \in DOMAIN GlossaryBaseConfig |-> data[f]] \in SharedGlossaryConfigs
        /\ data.ID = st.ID}

\* The identifiers and the fields the service answers the instances with.
SharedWireIDs == {"", "id-1"}

SharedAssetFacets == {facet \in AssetFacets : facet.Query = ""}

SharedGlossaryStamps == {at \in GlossaryStamps : Parses(at)}

\* The frame of a handler that is blocked in its API call for an instance:
\* the plan or state it decoded and the call with the answer that is on
\* its way.  NoFrame when no handler of the instance is running.
Frame(name, data, calls) == [name |-> name, data |-> data, calls |-> calls]

NoFrame == Frame("none", NoState, <<>>)

\* The record of a step in `op`: the handler and the instance that took it,
\* whether the handler went into its call or came to its end, the
\* diagnostics it ended with, and the frames of the handlers in flight.
Step(name, i, phase, diags, pending) ==
    [name |-> name, instance |-> i, phase |-> phase, diags |-> diags,
     pending |-> pending]

\* The frames with the one of instance i replaced.
Pending(i, frame) == [op.pending EXCEPT ![i] = frame]

SharedInit ==
    /\ resource \in {[kind |-> kind, client |-> NoClient] : kind \in {"asset", "glossary"}}
    /\ state = [i \in Instances |-> NoState]
    /\ remote = [i \in Instances |-> NoEntity]
    /\ op = Step("none", "a", "end", NoDiags, [i \in Instances |-> NoFrame])

\* Configure of AssetResource and of GlossaryResource: nothing without
\* provider data, an error for data of another type, and the client stored
\* in the object otherwise.
SharedConfigure ==
    /\ \E providerData \in ProviderDatas :
         IF providerData.nil
         THEN /\ op' = Step("Configure", "a", "end", NoDiags, op.pending)
              /\ UNCHANGED resource
         ELSE IF ~IsMarmot(providerData)
         THEN /\ op' = Step("Configure", "a", "end",
                            <<"Unexpected Resource Configure Type">>, op.pending)
              /\ UNCHANGED resource
         ELSE /\ op' = Step("Configure", "a", "end", NoDiags, op.pending)
              /\ resource' = [resource EXCEPT !.client = providerData]
    /\ UNCHANGED <<state, remote>>

\* A Delete that clears the client of the object once the entity is gone.
SharedAssetDeleteDroppingClient ==
    /\ resource.kind = "asset"
    /\ \E i \in Instances :
         \/ /\ ~resource.client.nil
            /\ op.pending[i].name = "none"
            /\ state[i].exists
            /\ LET data == AssetModel(state[i])
                   id == ValueString(data.ID)
               IN \/ \E err \in ApiErrors :
                       /\ op' = Step("Delete", i, "call", NoDiags,
                                     Pending(i, Frame("Delete", data,
                                       <<Call("DeleteAssetsID", id, err, NoEntity)>>)))
                       /\ remote' = IF err = "not_found"
                                    THEN [remote EXCEPT ![i] = NoEntity] ELSE remote
                  \/ /\ op' = Step("Delete", i, "call", NoDiags,
                                   Pending(i, Frame("Delete", data,
                                     <<Call("DeleteAssetsID", id, "nil", NoEntity)>>)))
                     /\ remote' = [remote EXCEPT ![i] = NoEntity]
            /\ UNCHANGED state
         \/ /\ op.pending[i].name = "Delete"
            /\ IF op.pending[i].calls[1].err # "nil"
               THEN /\ op' = Step("Delete", i, "end", <<"Client Error">>, Pending(i, NoFrame))
                    /\ UNCHANGED state
               ELSE /\ op' = Step("Delete", i, "end", NoDiags, Pending(i, NoFrame))
                    /\ state' = [state EXCEPT ![i] = NoState]
            /\ UNCHANGED remote
    /\ resource' = IF op'.phase = "end" /\ ~HasError(op'.diags)
                   THEN [resource EXCEPT !.client = NoClient] ELSE resource

\* The handlers of AssetResource, called for instance i through the client
\* of the object.  A handler runs in two steps: up to its API call, which
\* the service answers, and from the answer to its end.  Between the two
\* the handlers of the other instance and Configure may run; the framework
\* runs one handler at a time for one instance.
SharedAssetCreate ==
    /\ resource.kind = "asset"
    /\ \E i \in Instances :
         \/ /\ ~resource.client.nil
            /\ op.pending[i].name = "none"
            /\ ~state[i].exists
            /\ \E data \in SharedAssetCreatePlans : \E order \in RangeOrders(data.Environments) :
               \E asset \in {toCreateRequest(data, order)} :
                 IF HasError(asset.diags)
                 THEN /\ op' = Step("Create", i, "end", asset.diags, op.pending)
                      /\ UNCHANGED remote
                 ELSE \/ \E err \in ApiErrors :
                           /\ op' = Step("Create", i, "call", NoDiags,
                                         Pending(i, Frame("Create", data,
                                           <<Call("PostAssets", asset.val, err, NoEntity)>>)))
                           /\ UNCHANGED remote
                      \/ \E id \in SharedWireIDs, facet \in SharedAssetFacets :
                           LET payload == AssetEntity(asset.val, "", id, facet)
                           IN /\ op' = Step("Create", i, "call", NoDiags,
                                            Pending(i, Frame("Create", data,
                                              <<Call("PostAssets", asset.val, "nil", payload)>>)))
                              /\ remote' = [remote EXCEPT ![i] = Held(payload)]
            /\ UNCHANGED state
         \/ /\ op.pending[i].name = "Create"
            /\ LET data == op.pending[i].data
                   call == op.pending[i].calls[1]
               IN IF call.err # "nil"
                  THEN /\ op' = Step("Create", i, "end", <<"Client Error">>, Pending(i, NoFrame))
                       /\ UNCHANGED state
                  ELSE IF AssetNoIDReturned(call.res)
                  THEN /\ op' = Step("Create", i, "end", <<"API Error">>, Pending(i, NoFrame))
                       /\ UNCHANGED state
                  ELSE /\ op' = Step("Create", i, "end", NoDiags, Pending(i, NoFrame))
                       /\ state' = [state EXCEPT ![i] =
                                      Stored(updateModelFromResponse(data, call.res))]
            /\ UNCHANGED remote
    /\ UNCHANGED resource

SharedAssetRead ==
    /\ resource.kind = "asset"
    /\ \E i \in Instances :
         \/ /\ ~resource.client.nil
            /\ op.pending[i].name = "none"
            /\ state[i].exists
            /\ LET data == AssetModel(state[i])
                   id == ValueString(data.ID)
               IN IF id = ""
                  THEN /\ op' = Step("Read", i, "end", <<"Configuration Error">>, op.pending)
                       /\ UNCHANGED remote
                  ELSE \/ \E err \in ApiErrors :
                            /\ op' = Step("Read", i, "call", NoDiags,
                                          Pending(i, Frame("Read", data,
                                            <<Call("GetAssetsID", id, err, NoEntity)>>)))
                            /\ remote' = IF err = "not_found"
                                         THEN [remote EXCEPT ![i] = NoEntity] ELSE remote
                       \/ /\ remote[i].exists
                          /\ op' = Step("Read", i, "call", NoDiags,
                                        Pending(i, Frame("Read", data,
                                          <<Call("GetAssetsID", id, "nil",
                                                 AssetPayload(remote[i]))>>)))
                          /\ UNCHANGED remote
            /\ UNCHANGED state
         \/ /\ op.pending[i].name = "Read"
            /\ LET data == op.pending[i].data
                   call == op.pending[i].calls[1]
               IN IF call.err # "nil"
                  THEN /\ op' = Step("Read", i, "end", <<"Client Error">>, Pending(i, NoFrame))
                       /\ UNCHANGED state
                  ELSE /\ op' = Step("Read", i, "end", NoDiags, Pending(i, NoFrame))
                       /\ state' = [state EXCEPT ![i] =
                                      Stored(updateModelFromResponse(data, call.res))]
            /\ UNCHANGED remote
    /\ UNCHANGED resource

SharedAssetUpdate ==
    /\ resource.kind = "asset"
    /\ \E i \in Instances :
         \/ /\ ~resource.client.nil
            /\ op.pending[i].name = "none"
            /\ state[i].exists
            /\ \E data \in SharedAssetUpdatePlans(state[i]) :
               \E order \in RangeOrders(data.Environments) :
               \E asset \in {toUpdateRequest(data, order)} :
                 LET st == AssetModel(state[i])
                     arg == [id |-> AssetUpdateID(data, st), body |-> asset.val]
                 IN IF HasError(asset.diags)
                    THEN /\ op' = Step("Update", i, "end", asset.diags, op.pending)
                         /\ UNCHANGED remote
                    ELSE \/ \E err \in ApiErrors :
                              /\ op' = Step("Update", i, "call", NoDiags,
                                            Pending(i, Frame("Update", data,
                                              <<Call("PutAssetsID", arg, err, NoEntity)>>)))
                              /\ remote' = IF err = "not_found"
                                           THEN [remote EXCEPT ![i] = NoEntity] ELSE remote
                         \/ \E id \in SharedWireIDs, facet \in SharedAssetFacets :
                              LET payload == AssetEntity(asset.val, asset.val.UserDescription,
                                                         id, facet)
                              IN /\ op' = Step("Update", i, "call", NoDiags,
                                               Pending(i, Frame("Update", data,
                                                 <<Call("PutAssetsID", arg, "nil", payload)>>)))
                                 /\ remote' = [remote EXCEPT ![i] = Held(payload)]
            /\ UNCHANGED state
         \/ /\ op.pending[i].name = "Update"
            /\ LET data == op.pending[i].data
                   call == op.pending[i].calls[1]
               IN IF call.err # "nil"
                  THEN /\ op' = Step("Update", i, "end", <<"Client Error">>, Pending(i, NoFrame))
                       /\ UNCHANGED state
                  ELSE /\ op' = Step("Update", i, "end", NoDiags, Pending(i, NoFrame))
                       /\ state' = [state EXCEPT ![i] =
                                      Stored(updateModelFromResponse(data, call.res))]
            /\ UNCHANGED remote
    /\ UNCHANGED resource

SharedAssetDelete ==
    /\ resource.kind = "asset"
    /\ \E i \in Instances :
         \/ /\ ~resource.client.nil
            /\ op.pending[i].name = "none"
            /\ state[i].exists
            /\ LET data == AssetModel(state[i])
                   id == ValueString(data.ID)
               IN \/ \E err \in ApiErrors :
                       /\ op' = Step("Delete", i, "call", NoDiags,
                                     Pending(i, Frame("Delete", data,
                                       <<Call("DeleteAssetsID", id, err, NoEntity)>>)))
                       /\ remote' = IF err = "not_found"
                                    THEN [remote EXCEPT ![i] = NoEntity] ELSE remote
                  \/ /\ op' = Step("Delete", i, "call", NoDiags,
                                   Pending(i, Frame("Delete", data,
                                     <<Call("DeleteAssetsID", id, "nil", NoEntity)>>)))
                     /\ remote' = [remote EXCEPT ![i] = NoEntity]
            /\ UNCHANGED state
         \/ /\ op.pending[i].name = "Delete"
            /\ IF op.pending[i].calls[1].err # "nil"
               THEN /\ op' = Step("Delete", i, "end", <<"Client Error">>, Pending(i, NoFrame))
                    /\ UNCHANGED state
               ELSE /\ op' = Step("Delete", i, "end", NoDiags, Pending(i, NoFrame))
                    /\ state' = [state EXCEPT ![i] = NoState]
            /\ UNCHANGED remote
    /\ UNCHANGED resource

\* ImportState of AssetResource for instance i: the given identifier under
\* id and every other attribute null; no call and no use of the client.
SharedAssetImportState ==
    /\ resource.kind = "asset"
    /\ \E i \in Instances, id \in ImportIDs :
         /\ op.pending[i].name = "none"
         /\ ~state[i].exists
         /\ op' = Step("ImportState", i, "end", NoDiags, op.pending)
         /\ state' = [state EXCEPT ![i] = Stored(AssetImported(id))]
    /\ UNCHANGED <<resource, remote>>

\* The handlers of GlossaryResource, called for instance i.
SharedGlossaryCreate ==
    /\ resource.kind = "glossary"
    /\ \E i \in Instances :
         \/ /\ ~resource.client.nil
            /\ op.pending[i].name = "none"
            /\ ~state[i].exists
            /\ \E data \in SharedGlossaryCreatePlans : \E term \in {GlossaryToCreateRequest(data)} :
                 \/ \E err \in ApiErrors :
                      /\ op' = Step("Create", i, "call", NoDiags,
                                    Pending(i, Frame("Create", data,
                                      <<Call("PostGlossary", term, err, NoEntity)>>)))
                      /\ UNCHANGED remote
                 \/ \E id \in SharedWireIDs, at \in SharedGlossaryStamps :
                      LET payload == GlossaryTerm(term, id, at, at)
                      IN /\ op' = Step("Create", i, "call", NoDiags,
                                       Pending(i, Frame("Create", data,
                                         <<Call("PostGlossary", term, "nil", payload)>>)))
                         /\ remote' = [remote EXCEPT ![i] = Held(payload)]
            /\ UNCHANGED state
         \/ /\ op.pending[i].name = "Create"
            /\ LET data == op.pending[i].data
                   call == op.pending[i].calls[1]
               IN IF call.err # "nil"
                  THEN /\ op' = Step("Create", i, "end", <<"Client Error">>, Pending(i, NoFrame))
                       /\ UNCHANGED state
                  ELSE IF GlossaryNoIDReturned(call.res)
                  THEN /\ op' = Step("Create", i, "end", <<"API Error">>, Pending(i, NoFrame))
                       /\ UNCHANGED state
                  ELSE /\ op' = Step("Create", i, "end", NoDiags, Pending(i, NoFrame))
                       /\ state' = [state EXCEPT ![i] =
                                      Stored(GlossaryUpdateModelFromResponse(data, call.res))]
            /\ UNCHANGED remote
    /\ UNCHANGED resource

SharedGlossaryRead ==
    /\ resource.kind = "glossary"
    /\ \E i \in Instances :
         \/ /\ ~resource.client.nil
            /\ op.pending[i].name = "none"
            /\ state[i].exists
            /\ LET data == GlossaryModel(state[i])
                   id == ValueString(data.ID)
               IN IF id = ""
                  THEN /\ op' = Step("Read", i, "end", <<"Configuration Error">>, op.pending)
                       /\ UNCHANGED remote
                  ELSE \/ \E err \in ApiErrors :
                            /\ op' = Step("Read", i, "call", NoDiags,
                                          Pending(i, Frame("Read", data,
                                            <<Call("GetGlossaryID", id, err, NoEntity)>>)))
                            /\ remote' = IF err = "not_found"
                                         THEN [remote EXCEPT ![i] = NoEntity] ELSE remote
                       \/ /\ remote[i].exists
                          /\ op' = Step("Read", i, "call", NoDiags,
                                        Pending(i, Frame("Read", data,
                                          <<Call("GetGlossaryID", id, "nil",
                                                 GlossaryPayload(remote[i]))>>)))
                          /\ UNCHANGED remote
            /\ UNCHANGED state
         \/ /\ op.pending[i].name = "Read"
            /\ LET data == op.pending[i].data
                   call == op.pending[i].calls[1]
               IN IF call.err # "nil"
                  THEN /\ op' = Step("Read", i, "end", <<"Client Error">>, Pending(i, NoFrame))
                       /\ UNCHANGED state
                  ELSE /\ op' = Step("Read", i, "end", NoDiags, Pending(i, NoFrame))
                       /\ state' = [state EXCEPT ![i] =
                                      Stored(GlossaryUpdateModelFromResponse(data, call.res))]
            /\ UNCHANGED remote
    /\ UNCHANGED resource

SharedGlossaryUpdate ==
    /\ resource.kind = "glossary"
    /\ \E i \in Instances :
         \/ /\ ~resource.client.nil
            /\ op.pending[i].name = "none"
            /\ state[i].exists
            /\ \E data \in SharedGlossaryUpdatePlans(state[i]) :
               \E term \in {GlossaryToUpdateRequest(data)} :
                 LET st == GlossaryModel(state[i])
                     arg == [id |-> GlossaryUpdateID(data, st), body |-> term]
                 IN \/ \E err \in ApiErrors :
                         /\ op' = Step("Update", i, "call", NoDiags,
                                       Pending(i, Frame("Update", data,
                                         <<Call("PutGlossaryID", arg, err, NoEntity)>>)))
                         /\ remote' = IF err = "not_found"
                                      THEN [remote EXCEPT ![i] = NoEntity] ELSE remote
                    \/ \E id \in SharedWireIDs, at \in SharedGlossaryStamps :
                         LET payload == GlossaryTerm(term, id, at, at)
                         IN /\ op' = Step("Update", i, "call", NoDiags,
                                          Pending(i, Frame("Update", data,
                                            <<Call("PutGlossaryID", arg, "nil", payload)>>)))
                            /\ remote' = [remote EXCEPT ![i] = Held(payload)]
            /\ UNCHANGED state
         \/ /\ op.pending[i].name = "Update"
            /\ LET data == op.pending[i].data
                   call == op.pending[i].calls[1]
               IN IF call.err # "nil"
                  THEN /\ op' = Step("Update", i, "end", <<"Client Error">>, Pending(i, NoFrame))
                       /\ UNCHANGED state
                  ELSE /\ op' = Step("Update", i, "end", NoDiags, Pending(i, NoFrame))
                       /\ state' = [state EXCEPT ![i] =
                                      Stored(GlossaryUpdateModelFromResponse(data, call.res))]
            /\ UNCHANGED remote
    /\ UNCHANGED resource

SharedGlossaryDelete ==
    /\ resource.kind = "glossary"
    /\ \E i \in Instances :
         \/ /\ ~resource.client.nil
            /\ op.pending[i].name = "none"
            /\ state[i].exists
            /\ LET data == GlossaryModel(state[i])
                   id == ValueString(data.ID)
               IN \/ \E err \in ApiErrors :
                       /\ op' = Step("Delete", i, "call", NoDiags,
                                     Pending(i, Frame("Delete", data,
                                       <<Call("DeleteGlossaryID", id, err, NoEntity)>>)))
                       /\ remote' = IF err = "not_found"
                                    THEN [remote EXCEPT ![i] = NoEntity] ELSE remote
                  \/ /\ op' = Step("Delete", i, "call", NoDiags,
                                   Pending(i, Frame("Delete", data,
                                     <<Call("DeleteGlossaryID", id, "nil", NoEntity)>>)))
                     /\ remote' = [remote EXCEPT ![i] = NoEntity]
            /\ UNCHANGED state
         \/ /\ op.pending[i].name = "Delete"
            /\ IF op.pending[i].calls[1].err # "nil"
               THEN /\ op' = Step("Delete", i, "end", <<"Client Error">>, Pending(i, NoFrame))
                    /\ UNCHANGED state
               ELSE /\ op' = Step("Delete", i, "end", NoDiags, Pending(i, NoFrame))
                    /\ state' = [state EXCEPT ![i] = NoState]
            /\ UNCHANGED remote
    /\ UNCHANGED resource

\* ImportState of GlossaryResource for instance i.
SharedGlossaryImportState ==
    /\ resource.kind = "glossary"
    /\ \E i \in Instances, id \in ImportIDs :
         /\ op.pending[i].name = "none"
         /\ ~state[i].exists
         /\ op' = Step("ImportState", i, "end", NoDiags, op.pending)
         /\ state' = [state EXCEPT ![i] = Stored(GlossaryImported(id))]
    /\ UNCHANGED <<resource, remote>>

SharedNext ==
    \/ SharedConfigure
    \/ SharedAssetCreate
    \/ SharedAssetRead
    \/ SharedAssetUpdate
    \/ SharedAssetDelete
    \/ SharedAssetImportState
    \/ SharedGlossaryCreate
    \/ SharedGlossaryRead
    \/ SharedGlossaryUpdate
    \/ SharedGlossaryDelete
    \/ SharedGlossaryImportState

SpecShared == SharedInit /\ [][SharedNext]_vars

\* C25: the handlers share no mutable state.  No handler step writes a
\* field of its resource object (client is written by Configure alone), and
\* a step of a handler called for one instance leaves the state, the entity
\* and the running handler of every other instance as they were, so that
\* what a handler sends and stores, with the handlers of other instances
\* running between its call and its end, is what it sends and stores when
\* run alone.
C25_HandlersShareNothing ==
    [][/\ op'.name # "Configure"
            => /\ resource' = resource
               /\ \A j \in Instances \ {op'.instance} :
                    /\ state'[j] = state[j]
                    /\ remote'[j] = remote[j]
                    /\ op'.pending[j] = op.pending[j]
       /\ op'.name = "Configure"
            => /\ state' = state
               /\ remote' = remote
               /\ op'.pending = op.pending]_vars

\* An Update of instance b that came to its end and stored its state while
\* a handler of instance a was blocked in its call, both served by the
\* object Configure gave a client to.
C25_Witness ==
    /\ op.name = "Update"
    /\ op.instance = "b"
    /\ op.phase = "end"
    /\ ~HasError(op.diags)
    /\ ~resource.client.nil
    /\ op.pending["a"].name # "none"
    /\ state["a"].exists
    /\ state["b"].exists
    /\ state["a"] # state["b"]

====
